---- MODULE Spec2Model ----
(***************************************************************************)
(* Ingestion pipeline of the pyrrhos analytics server:                     *)
(*   tracking.track  ->  Queries.CreateEvent (detached goroutine, send on  *)
(*   the unbuffered intake channel)  ->  Queries.InitQueue (the consumer:  *)
(*   append, size trigger, timer trigger)  ->  Queries.InsertEvents        *)
(*   (drain under the lock, PrepareBatch / Append / Send)  ->  events.     *)
(* Aggregate reader: stats.ViewStats -> Queries.GetPageViews / GetUnique   *)
(*   -> Queries.GetStats over the events table.                            *)
(***************************************************************************)
EXTENDS Integers, Sequences, FiniteSets, TLC

VARIABLES
    nextId,       \* number of /track requests served so far (request ids 1..nextId)
    resp,         \* what the last served /track request answered
    chanSenders,  \* QueueData values held by goroutines blocked in `Queue.Chan <-`
    queueData,    \* EVQueue.queueData, the staging buffer
    pc,           \* position of the InitQueue goroutine
    trigger,      \* select case the InitQueue goroutine is serving
    tmp,          \* InsertEvents' local copy of the drained buffer
    timer,        \* the time.Timer of InitQueue: armed?, seconds until it fires
    timerC,       \* number of ticks waiting in timer.C (capacity 1)
    batches,      \* history: every call of InsertEvents, its events and outcome
    rows,         \* the events table
    errLogged,    \* number of "error while inserting data" lines logged
    today,        \* the clock: the day it is now, in UTC and in the server's zone
    elapsed,      \* stopwatch: seconds since the first request was served
    ip,           \* Tracking.IP, the --ip flag (read-only after startup)
    sent,         \* history: what each request carried in `data`
    err,          \* what the last call of InsertEvents returned
    args,         \* the request under observation: what the client sends
    statsResp,    \* what the last served /stats request answered
    proc,         \* the server process: Run, gracefulShutdown, start, the handles
    client,       \* the browser client: eventQueue, flushTimer, opt-out, requests
    store,        \* MemoryStorage: maxEvents and the events array
    lock,         \* EVQueue.lock: free, or held for writing or for reading
    local,        \* InitQueue's locals `data` and `count`
    collector,    \* the collector of packages/core: options, rateLimitStore, requests
    kv,           \* KVStorage: the namespace and the storeEvents calls under way
    block         \* InsertEvents' local `batch`: the rows appended so far

vars == <<nextId, resp, chanSenders, queueData, pc, trigger, tmp, timer, timerC,
          batches, rows, errLogged, today, elapsed, ip, sent, err, args,
          statsResp, proc, client, store, lock, local, collector, kv, block>>

----------------------------------------------------------------------------
(* Bounds of the model                                                     *)

MaxReq == 3           \* /track requests served in one behaviour of Spec
MaxSenders == 2       \* CreateEvent goroutines blocked on the channel at once
MaxBurst == 16        \* requests in one behaviour of SpecBurst
MaxTimerFlushes == 1  \* timer-triggered flushes in one behaviour of SpecBurst
MaxRows == 2          \* rows in the events table when /stats is served
MaxShutdownReq == 2   \* requests accepted in one behaviour of SpecShutdown
MaxDayReq == 2        \* requests in one behaviour of SpecDay
MaxBatchSize == 3     \* largest batchSize option of the browser client
MaxEvents == 3        \* events the page creates through the browser client
MaxFetches == 2       \* requests the browser client sends
MaxCapacity == 3      \* largest maxEvents option of MemoryStorage
MaxBatch == 4         \* most events in one call of storeEvents
MaxStored == 6        \* events handed to storeEvents in one behaviour
MaxPosts == 3         \* POST /api/v1/events requests in one behaviour
MaxClockSteps == 3    \* half windows the collector's clock moves on
MaxCalls == 2         \* calls of KVStorage.storeEvents in one behaviour
MaxKvBatch == 2       \* most events in one of them

(* Program constants                                                       *)

FlushSize == 15       \* `if count >= 15`
TimerSeconds == 10    \* time.NewTimer(time.Second * 10), timer.Reset(...)
StatusOK == 200       \* http.StatusOK
StatusBadRequest == 400            \* http.StatusBadRequest
StatusInternalServerError == 500   \* http.StatusInternalServerError
WindowMs == 60000     \* `const windowMs = 60 * 1000`
DefaultEventsPerMinute == 1000   \* `rateLimits.eventsPerMinute || 1000`
DayMs == 86400000     \* a day in milliseconds, `Date.now() - 86400000`

(* Scenario S4                                                             *)

S4First == FlushSize - 1    \* events enqueued at once: one short of a flush
S4Gap == TimerSeconds - 1   \* seconds until the next: one short of a period

----------------------------------------------------------------------------
(* Sequence helpers                                                        *)

Range(s) == {s[i] : i \in 1..Len(s)}

RECURSIVE IndexFrom(_, _, _)
IndexFrom(s, c, i) ==
    IF i > Len(s) THEN 0
    ELSE IF s[i] = c THEN i ELSE IndexFrom(s, c, i + 1)

\* strings.Index over a tokenised string; 0 stands for Go's -1
Index(s, c) == IndexFrom(s, c, 1)

RECURSIVE LastIndexFrom(_, _, _)
LastIndexFrom(s, c, i) ==
    IF i = 0 THEN 0
    ELSE IF s[i] = c THEN i ELSE LastIndexFrom(s, c, i - 1)

LastIndex(s, c) == LastIndexFrom(s, c, Len(s))

Ids(s) == [i \in 1..Len(s) |-> s[i].id]

RECURSIVE Flatten(_)
Flatten(ss) == IF ss = <<>> THEN <<>> ELSE Head(ss) \o Flatten(Tail(ss))

----------------------------------------------------------------------------
(* The wire form and the types of package repository                       *)

ChromeUA ==
    "Mozilla/5.0 (Windows NT 10.0; Win64; x64) AppleWebKit/537.36 (KHTML, like Gecko) Chrome/129.0.0.0 Safari/537.36"

PhoneUA ==
    "Mozilla/5.0 (iPhone; CPU iPhone OS 17_0 like Mac OS X) AppleWebKit/605.1.15 (KHTML, like Gecko) Version/17.0 Mobile/15E148 Safari/604.1"

\* The beacon of TestDecodeData and of scenario S1 (a page view, no referrer)
BeaconPage ==
    [site_id |-> "fuck",
     tracking |-> [type |-> "page", identity |-> "", isTouch |-> FALSE,
                   ua |-> ChromeUA, event |-> "/",
                   category |-> "Page views", referrer |-> ""]]

\* A custom event carrying the referrer of scenario S2
BeaconEvent ==
    [site_id |-> "S",
     tracking |-> [type |-> "event", identity |-> "a", isTouch |-> TRUE,
                   ua |-> PhoneUA, event |-> "signup",
                   category |-> "Forms",
                   referrer |-> "https://example.com/blog/post?x=1"]]

Beacons == {BeaconPage, BeaconEvent}

\* A JSON text, by what encoding/json sees in it
JsonObject(o) == [kind |-> "object", fields |-> o]
JsonOther(k) == [kind |-> k, fields |-> [site_id |-> ""]]

\* The value of the query parameter `data`
RawEmpty == [text |-> "empty", json |-> JsonOther("invalid")]
RawNotBase64 == [text |-> "garbage", json |-> JsonOther("invalid")]
RawBase64(j) == [text |-> "base64", json |-> j]

RawInputs ==
    {RawEmpty, RawNotBase64, RawBase64(JsonOther("invalid")),
     RawBase64(JsonOther("array"))}
    \cup {RawBase64(JsonObject(b)) : b \in Beacons}

Field(o, k, zero) == IF k \in DOMAIN o THEN o[k] ELSE zero

ZeroTrackingData ==
    [Type |-> "", Identity |-> "", UserAgent |-> "", Event |-> "",
     Category |-> "", Referrer |-> "", ReferrerHost |-> "",
     IsTouchDevice |-> FALSE]

ZeroTracking == [SiteID |-> "", Action |-> ZeroTrackingData]

\* json.Unmarshal into TrackingData, field by struct tag
UnmarshalTrackingData(o) ==
    [Type |-> Field(o, "type", ""),
     Identity |-> Field(o, "identity", ""),
     UserAgent |-> Field(o, "ua", ""),
     Event |-> Field(o, "event", ""),
     Category |-> Field(o, "category", ""),
     Referrer |-> Field(o, "referrer", ""),
     ReferrerHost |-> Field(o, "ReferrerHost", ""),
     IsTouchDevice |-> Field(o, "isTouch", FALSE)]

\* json.Unmarshal into Tracking
UnmarshalTracking(o) ==
    [SiteID |-> Field(o, "site_id", ""),
     Action |-> IF "tracking" \in DOMAIN o
                THEN UnmarshalTrackingData(o["tracking"])
                ELSE ZeroTrackingData]

\* mutant: the decoder's error is dropped
DecodeNeverFails(raw) == [err |-> FALSE, data |-> ZeroTracking]

\* decodeData: base64.StdEncoding.DecodeString, then json.Unmarshal
decodeData(raw) ==
    IF raw.text # "base64" THEN [err |-> TRUE, data |-> ZeroTracking]
    ELSE IF raw.json.kind = "object"
         THEN [err |-> FALSE, data |-> UnmarshalTracking(raw.json.fields)]
    ELSE IF raw.json.kind = "null"
         THEN [err |-> FALSE, data |-> ZeroTracking]
    ELSE [err |-> TRUE, data |-> ZeroTracking]

\* useragent.Parse (github.com/mileusna/useragent), on the agents used here
Parse(ua) ==
    CASE ua = ChromeUA -> [Name |-> "Chrome", OS |-> "Windows", Device |-> ""]
      [] ua = PhoneUA -> [Name |-> "Safari", OS |-> "iOS", Device |-> "iPhone"]
      [] OTHER -> [Name |-> "", OS |-> "", Device |-> ""]

\* url.Parse, on the referrers used here: its error and the Host it yields
UrlParse(ref) ==
    CASE ref = "https://example.com/blog/post?x=1" ->
           [err |-> FALSE, Host |-> "example.com"]
      [] ref = "://missing-scheme" -> [err |-> TRUE, Host |-> ""]
      [] OTHER -> [err |-> FALSE, Host |-> ""]

----------------------------------------------------------------------------
(* Client address: header values and addresses are sequences of tokens, a  *)
(* token being an address literal, "," , ":" or other text                 *)

ValidIPs == {"1.2.3.4", "5.6.7.8", "203.0.113.5", "10.0.0.1", "127.0.0.1", "9.9.9.9"}

\* mutant: any text passes for an address
ParseIPAny(s) == s

\* net.ParseIP
ParseIP(s) == IF Len(s) = 1 /\ s[1] \in ValidIPs THEN s ELSE <<>>

\* http.CanonicalHeaderKey
CanonicalHeaderKey(h) ==
    CASE h = "X-Real-IP" -> "X-Real-Ip"
      [] OTHER -> h

\* http.Header.Get
Get(hdr, name) == Field(hdr, CanonicalHeaderKey(name), <<>>)

\* the header list track passes to ipFromRequest
TrackHeaders == <<"X-Forward-For", "X-Real-IP">>

ipFromForwardedForHeader(v) ==
    LET sep == Index(v, ",")
    IN  IF sep = 0 THEN v ELSE SubSeq(v, 1, sep - 1)

HeaderValue(hdr, header) ==
    IF CanonicalHeaderKey(header) = "X-Forwarded-For"
    THEN ipFromForwardedForHeader(Get(hdr, header))
    ELSE Get(hdr, header)

\* mutant: the headers are not looked at
FirstHeaderSkipped(headers, hdr, i) == <<>>

\* the loop over headers: the first non-empty value, or the last one read
RECURSIVE FirstHeader(_, _, _)
FirstHeader(headers, hdr, i) ==
    IF i > Len(headers) THEN <<>>
    ELSE LET v == HeaderValue(hdr, headers[i])
         IN  IF v # <<>> THEN v ELSE FirstHeader(headers, hdr, i + 1)

\* net.SplitHostPort
SplitHostPort(addr) ==
    LET c == LastIndex(addr, ":")
    IN  IF c = 0 THEN [err |-> TRUE, host |-> <<>>]
        ELSE [err |-> FALSE, host |-> SubSeq(addr, 1, c - 1)]

ipFromRequest(headers, hdr, remoteAddr, overwriteIP) ==
    LET fromHeader == FirstHeader(headers, hdr, 1)
        split == SplitHostPort(remoteAddr)
    IN  IF fromHeader = <<>> /\ split.err THEN [err |-> TRUE, ip |-> <<>>]
        ELSE LET remoteIP == IF Len(overwriteIP) > 0 THEN overwriteIP
                             ELSE IF fromHeader = <<>> THEN split.host
                             ELSE fromHeader
                 parsed == ParseIP(remoteIP)
             IN  IF parsed = <<>> THEN [err |-> TRUE, ip |-> <<>>]
                 ELSE [err |-> FALSE, ip |-> parsed]

\* Request headers and peer addresses served in the model
HeaderSets ==
    {[h \in {} |-> <<>>],
     [h \in {"X-Forwarded-For"} |-> <<"203.0.113.5", ",", " ", "10.0.0.1">>],
     [h \in {"X-Real-Ip"} |-> <<"9.9.9.9">>],
     [h \in {"X-Real-Ip"} |-> <<"unknown">>]}

RemoteAddrs == {<<"127.0.0.1", ":", "1234">>, <<"@">>}

----------------------------------------------------------------------------
(* The geolocation oracle's answers and getGeoInfo                         *)

GeoReplies ==
    {[net |-> "error", status |-> 0, json |-> "none", country |-> "", region_name |-> ""],
     [net |-> "ok", status |-> 500, json |-> "invalid", country |-> "", region_name |-> ""],
     [net |-> "ok", status |-> 200, json |-> "object", country |-> "Ghana",
      region_name |-> "Greater Accra"]}

\* getGeoInfo: http.DefaultClient.Do, then json.NewDecoder(resp.Body).Decode
getGeoInfo(reply) ==
    IF reply.net = "error" THEN [err |-> TRUE, Country |-> "", RegionName |-> ""]
    ELSE IF reply.json # "object"
         THEN [err |-> TRUE, Country |-> "", RegionName |-> ""]
    ELSE [err |-> FALSE, Country |-> reply.country,
          RegionName |-> reply.region_name]

----------------------------------------------------------------------------
(* tracking.track                                                          *)

QueueData(id, geo, ua, trk) ==
    [id |-> id,
     geoInfo |-> [Country |-> geo.Country, RegionName |-> geo.RegionName],
     useragent |-> ua,
     tracking |-> trk]

\* lines 43-48 of track: the referrer's host, when it parses
WithReferrerHost(trk) ==
    IF trk.Action.Referrer # "" /\ ~UrlParse(trk.Action.Referrer).err
    THEN [trk EXCEPT !.Action.ReferrerHost = UrlParse(trk.Action.Referrer).Host]
    ELSE trk

\* mutant: the early returns answer 400 Bad Request
TrackStatusOnlyOnSuccess(path) == IF path = "enqueued" THEN StatusOK ELSE 400

\* `defer w.WriteHeader(http.StatusOK)`: the status of every return path
TrackStatus(path) == StatusOK

\* track never writes to the ResponseWriter
TrackBody(path) == ""

\* The return path track takes, the address it asks the oracle about and the
\* value it hands to `go t.DB.CreateEvent`
trackResult(id, rawData, hdr, remoteAddr, reply, overwriteIP) ==
    LET dec == decodeData(rawData)
        ua == Parse(dec.data.Action.UserAgent)
        addr == ipFromRequest(TrackHeaders, hdr, remoteAddr, overwriteIP)
        geo == getGeoInfo(reply)
        none == QueueData(0, geo, ua, ZeroTracking)
    IN  IF rawData.text = "empty"
        THEN [path |-> "no_data", geoIP |-> <<>>, spawn |-> FALSE, data |-> none]
        ELSE IF dec.err
        THEN [path |-> "decode_error", geoIP |-> <<>>, spawn |-> FALSE, data |-> none]
        ELSE IF addr.err
        THEN [path |-> "ip_error", geoIP |-> <<>>, spawn |-> FALSE, data |-> none]
        ELSE IF geo.err
        THEN [path |-> "geo_error", geoIP |-> addr.ip, spawn |-> FALSE, data |-> none]
        ELSE [path |-> "enqueued", geoIP |-> addr.ip, spawn |-> TRUE,
              data |-> QueueData(id, geo, ua, WithReferrerHost(dec.data))]

\* what a request carried: the beacon, when `data` decodes to one
Carried(rawData) ==
    IF rawData.text # "empty" /\ ~decodeData(rawData).err
    THEN [decodable |-> TRUE, wire |-> rawData.json.fields]
    ELSE [decodable |-> FALSE, wire |-> [site_id |-> ""]]

NoResponse == [id |-> 0, path |-> "none", status |-> 0, body |-> "", geoIP |-> <<>>]

\* mutant: the handler sends on the channel itself and returns once the
\* consumer has taken the event
HandlerWaitsForReceive(spawn, at) == spawn /\ at # "select"

\* Whether the handler has to wait for the consumer, which is at `at`, before
\* it returns: `go t.DB.CreateEvent(...)` leaves the send to a new goroutine
HandlerWaits(spawn, at) == FALSE

\* One GET /track request, served to its response; on the last path it starts
\* the goroutine of CreateEvent, which blocks sending on Queue.Chan
track(rawData, hdr, remoteAddr, reply, maxReq, maxSenders) ==
    /\ nextId < maxReq
    /\ \E r \in {trackResult(nextId + 1, rawData, hdr, remoteAddr, reply, ip)} :
        /\ r.spawn => Cardinality(chanSenders) < maxSenders
        /\ ~HandlerWaits(r.spawn, pc)
        /\ nextId' = nextId + 1
        /\ resp' = [id |-> nextId + 1, path |-> r.path,
                    status |-> TrackStatus(r.path), body |-> TrackBody(r.path),
                    geoIP |-> r.geoIP]
        /\ chanSenders' = IF r.spawn THEN chanSenders \cup {r.data} ELSE chanSenders
        /\ sent' = Append(sent, Carried(rawData))
        /\ UNCHANGED <<queueData, pc, trigger, tmp, timer, timerC, batches, rows,
                       errLogged, today, ip, err, args, statsResp,
                   proc, client, store, lock, local, collector, kv, block>>

\* a request whose every step succeeds
GoodHeaders == [h \in {"X-Real-Ip"} |-> <<"9.9.9.9">>]
GoodAddr == <<"127.0.0.1", ":", "1234">>
GoodReply ==
    [net |-> "ok", status |-> 200, json |-> "object", country |-> "Ghana",
     region_name |-> "Greater Accra"]

----------------------------------------------------------------------------
(* Queries.InitQueue, the consumer                                         *)

\* mutant: the comparison is strict
SizeTriggerStrict(count) == count > FlushSize

\* mutant: the threshold is one too low
SizeTriggerEarly(count) == count >= FlushSize - 1

\* `if count >= 15` after the append
SizeTrigger(count) == count >= FlushSize

\* mutant: a tick flushes whatever the buffer holds, nothing included
TimeTriggerAlways(count) == TRUE

\* mutant: a tick flushes only a full buffer
TimeTriggerFull(count) == count >= FlushSize

\* `if count > 0` after a tick
TimeTrigger(count) == count > 0

\* mutant: a flush by size starts the interval afresh
TimerAfterAppendReset(t, count) ==
    IF count >= FlushSize THEN [armed |-> TRUE, remaining |-> TimerSeconds] ELSE t

\* the timer when the case of the channel is through: the case has no
\* timer.Reset, whether it flushes or not
TimerAfterAppend(t, count) == t

\* case data := <-query.Queue.Chan
Receive ==
    \E data \in chanSenders :
        /\ pc = "select"
        /\ chanSenders' = chanSenders \ {data}
        /\ queueData' = Append(queueData, data)
        /\ IF SizeTrigger(Len(queueData) + 1)
           THEN pc' = "insert" /\ trigger' = "size"
           ELSE pc' = "select" /\ trigger' = "none"
        /\ timer' = TimerAfterAppend(timer, Len(queueData) + 1)
        /\ UNCHANGED <<nextId, resp, tmp, timerC, batches, rows,
                       errLogged, today, elapsed, ip, sent, err, args,
                   statsResp,
                   proc, client, store, lock, local, collector, kv, block>>

\* the timer-triggered flushes so far
TimerFlushes == Cardinality({i \in 1..Len(batches) : batches[i].by = "timer"})

\* d seconds pass for the timer; at its deadline it sends on timer.C, whose
\* buffer holds one tick
advance(d) ==
    IF timer.armed /\ d >= timer.remaining
    THEN timer' = [armed |-> FALSE, remaining |-> 0] /\ timerC' = 1
    ELSE IF timer.armed
    THEN timer' = [timer EXCEPT !.remaining = @ - d] /\ timerC' = timerC
    ELSE UNCHANGED <<timer, timerC>>

\* the timer runs to its deadline
timerExpire(maxFlushes) ==
    /\ timer.armed
    /\ TimerFlushes < maxFlushes
    /\ advance(timer.remaining)
    /\ UNCHANGED <<nextId, resp, chanSenders, queueData, pc, trigger, tmp,
                   batches, rows, errLogged, today, elapsed, ip, sent, err, args,
                   statsResp,
                   proc, client, store, lock, local, collector, kv, block>>

\* mutant: the tick is taken but the timer is not armed again
ResetForgotten(t) == [armed |-> FALSE, remaining |-> 0]

\* timer.Reset(time.Second * 10)
Reset(t) == [armed |-> TRUE, remaining |-> TimerSeconds]

\* case <-timer.C
TimerTick ==
    /\ pc = "select"
    /\ timerC = 1
    /\ timerC' = 0
    /\ timer' = Reset(timer)
    /\ IF TimeTrigger(Len(queueData))
       THEN pc' = "insert" /\ trigger' = "timer"
       ELSE pc' = "select" /\ trigger' = "none"
    /\ UNCHANGED <<nextId, resp, chanSenders, queueData, tmp, batches, rows,
                   errLogged, today, elapsed, ip, sent, err, args,
                   statsResp,
                   proc, client, store, lock, local, collector, kv, block>>

----------------------------------------------------------------------------
(* Queries.InsertEvents                                                    *)

\* mutant: the buffer is copied but not emptied
DrainedKept(q) == q

\* query.Queue.queueData = nil
Drained(q) == <<>>

\* lines 173-178: the buffer is copied and emptied under the lock
Drain ==
    /\ pc = "insert"
    /\ tmp' = queueData
    /\ queueData' = Drained(queueData)
    /\ batches' = Append(batches, [ids |-> Ids(queueData), by |-> trigger,
                                   result |-> "open"])
    /\ pc' = "writer"
    /\ UNCHANGED <<nextId, resp, chanSenders, trigger, timer, timerC, rows,
                   errLogged, today, elapsed, ip, sent, err, args,
                   statsResp,
                   proc, client, store, lock, local, collector, kv, block>>

\* nowToInt
nowToInt == today.local

\* mutant: the positional parameters $3 and $5 are bound the wrong way round
RowSwapped(q, day) ==
    [id |-> q.id,
     site_id |-> q.tracking.SiteID,
     occured_at |-> day,
     type |-> q.tracking.Action.Event,
     user_id |-> q.tracking.Action.Identity,
     event |-> q.tracking.Action.Type,
     category |-> q.tracking.Action.Category,
     referrer |-> q.tracking.Action.Referrer,
     referrer_domain |-> q.tracking.Action.ReferrerHost,
     is_touch |-> q.tracking.Action.IsTouchDevice,
     browser_name |-> q.useragent.Name,
     os_name |-> q.useragent.OS,
     device_type |-> q.useragent.Device,
     country |-> q.geoInfo.Country,
     region |-> q.geoInfo.RegionName]

\* the 14 values batch.Append binds for one event
Row(q, day) ==
    [id |-> q.id,
     site_id |-> q.tracking.SiteID,
     occured_at |-> day,
     type |-> q.tracking.Action.Type,
     user_id |-> q.tracking.Action.Identity,
     event |-> q.tracking.Action.Event,
     category |-> q.tracking.Action.Category,
     referrer |-> q.tracking.Action.Referrer,
     referrer_domain |-> q.tracking.Action.ReferrerHost,
     is_touch |-> q.tracking.Action.IsTouchDevice,
     browser_name |-> q.useragent.Name,
     os_name |-> q.useragent.OS,
     device_type |-> q.useragent.Device,
     country |-> q.geoInfo.Country,
     region |-> q.geoInfo.RegionName]

\* mutant: every Append is visible at once, so an Append error on the k-th
\* row leaves the rows before it in the table
RowsAfterPartial(outcome, k, table, batchRows) ==
    IF outcome = "ok" THEN table \o batchRows
    ELSE IF outcome = "append_error" THEN table \o SubSeq(batchRows, 1, k - 1)
    ELSE table

\* The events table after the writer calls end with `outcome` (an Append error
\* on the k-th row): only a Send that succeeds makes the block visible
RowsAfter(outcome, k, table, batchRows) ==
    IF outcome = "ok" THEN table \o batchRows ELSE table

\* `log.Println("error while inserting data: ", err)` in InitQueue
LogsAfter(outcome, n) == IF outcome = "ok" THEN n ELSE n + 1

\* mutant: a failed batch is put back in front of the buffer for a retry
BufferAfterRestore(outcome, buffer, batch) ==
    IF outcome = "ok" THEN buffer ELSE batch \o buffer

\* The buffer when InsertEvents returns: an error restores nothing
BufferAfter(outcome, buffer, batch) == buffer

\* line 186: PrepareBatch returns a batch
PrepareBatch ==
    /\ pc = "writer"
    /\ block' = <<>>
    /\ pc' = "append"
    /\ UNCHANGED <<nextId, resp, chanSenders, queueData, trigger, tmp, timer,
                   timerC, batches, rows, errLogged, today, elapsed, ip, sent,
                   err, args, statsResp, proc, client, store, lock, local,
                   collector, kv>>

\* lines 191-207: one turn of the loop, batch.Append of the next event with
\* the day nowToInt reads at that moment
AppendRow ==
    /\ pc = "append"
    /\ Len(block) < Len(tmp)
    /\ block' = Append(block, Row(tmp[Len(block) + 1], nowToInt))
    /\ UNCHANGED <<nextId, resp, chanSenders, queueData, pc, trigger, tmp,
                   timer, timerC, batches, rows, errLogged, today, elapsed, ip,
                   sent, err, args, statsResp, proc, client, store, lock,
                   local, collector, kv>>

\* InsertEvents returns with `outcome` (an Append error on the k-th row), and
\* InitQueue handles the error
writer(outcome, k) ==
    /\ rows' = RowsAfter(outcome, k, rows, block)
    /\ errLogged' = LogsAfter(outcome, errLogged)
    /\ queueData' = BufferAfter(outcome, queueData, tmp)
    /\ batches' = [batches EXCEPT ![Len(batches)].result =
                                     IF outcome = "ok" THEN "ok" ELSE "error"]
    /\ err' = outcome
    /\ tmp' = <<>>
    /\ block' = <<>>
    /\ pc' = "select"
    /\ trigger' = "none"
    /\ UNCHANGED <<nextId, resp, chanSenders, timer, timerC, today, elapsed, ip, sent, args,
                   statsResp,
                   proc, client, store, lock, local, collector, kv>>

\* lines 187-189: PrepareBatch fails
PrepareBatchError == pc = "writer" /\ writer("prepare_error", 0)

\* lines 208-210: the Append of the next event fails
AppendError ==
    /\ pc = "append"
    /\ Len(block) < Len(tmp)
    /\ writer("append_error", Len(block) + 1)

\* line 213, after the last turn of the loop: Send fails
SendError == pc = "append" /\ Len(block) = Len(tmp) /\ writer("send_error", 0)

\* line 213: Send succeeds
SendOk == pc = "append" /\ Len(block) = Len(tmp) /\ writer("ok", 0)

\* the steps of the InitQueue goroutine
Consumer ==
    Receive \/ TimerTick \/ Drain \/ PrepareBatch \/ AppendRow
    \/ PrepareBatchError \/ AppendError
    \/ SendError \/ SendOk

----------------------------------------------------------------------------
(* The process                                                             *)

\* no request is singled out
NoArgs == [rawData |-> RawEmpty, hdr |-> <<>>, remoteAddr |-> <<>>,
           reply |-> [net |-> "error", status |-> 0, json |-> "none",
                      country |-> "", region_name |-> ""]]

\* no /stats request was served
NoStatsResponse ==
    [status |-> 0, contentType |-> "", kind |-> "none", text |-> "",
     items |-> <<>>, query |-> "none"]

\* a day on a server that runs in UTC
Noon == [utc |-> 20261031, local |-> 20261031, zone |-> "utc"]

\* the process after a successful start, no signal received
Serving ==
    [main |-> "quit", serve |-> "listening", bound |-> TRUE, accepted |-> 0,
     signalled |-> FALSE, columnDB |-> "open", mainDB |-> "open",
     exited |-> FALSE, code |-> 0]

\* no browser client was created
NoClient ==
    [batchSize |-> 0, queue |-> <<>>, flushTimer |-> FALSE, pending |-> FALSE,
     optedOut |-> FALSE, requests |-> <<>>, next |-> 1]

\* no MemoryStorage was created
\* InitQueue before its first select case
NoLocal == [data |-> <<>>, count |-> 0]

\* no collector made
NoCollector ==
    [writeKeys |-> {}, eventsPerMinute |-> <<>>, rateLimitStore |-> <<>>,
     now |-> 0, log |-> <<>>, stored |-> <<>>]

\* a namespace without keys, no call under way
NoKV == [data |-> <<>>, tasks |-> <<>>, calls |-> 0, query |-> <<>>]

NoStore == [maxEvents |-> 0, events |-> <<>>, all |-> <<>>, last |-> 0]

\* --ip values the server is started with
IPFlags == {<<>>}

\* What NewServer and Init construct: tracking.New has started InitQueue,
\* which created the timer; the events table holds what earlier runs left in
\* it
ConstructedWith(flags, requests, tables, clocks, collectors) ==
    /\ nextId = 0
    /\ resp = NoResponse
    /\ chanSenders = {}
    /\ queueData = <<>>
    /\ pc = "select"
    /\ trigger = "none"
    /\ tmp = <<>>
    /\ timer = [armed |-> TRUE, remaining |-> TimerSeconds]
    /\ timerC = 0
    /\ batches = <<>>
    /\ rows \in tables
    /\ errLogged = 0
    /\ today \in clocks
    /\ elapsed = 0
    /\ ip \in flags
    /\ sent = <<>>
    /\ err = "none"
    /\ args \in requests
    /\ statsResp = NoStatsResponse
    /\ lock = "free"
    /\ local = NoLocal
    /\ collector \in collectors
    /\ kv = NoKV
    /\ block = <<>>

\* the same, no collector being there
Constructed(flags, requests, tables, clocks) ==
    ConstructedWith(flags, requests, tables, clocks, {NoCollector})

\* the server is serving; no browser client, no event storage
StartedAt(flags, requests, tables, clocks) ==
    /\ Constructed(flags, requests, tables, clocks)
    /\ proc = Serving
    /\ client = NoClient
    /\ store = NoStore

\* the same, on a server whose zone is UTC
Started(flags, requests, tables) == StartedAt(flags, requests, tables, {Noon})

\* a first start, on an empty table
Boot(flags) == Started(flags, {NoArgs}, {<<>>})

Init == Boot(IPFlags)

\* any request
Track ==
    /\ nextId < MaxReq
    /\ \E rawData \in RawInputs, hdr \in HeaderSets, remoteAddr \in RemoteAddrs,
          reply \in GeoReplies :
           track(rawData, hdr, remoteAddr, reply, MaxReq, MaxSenders)
    /\ UNCHANGED elapsed

\* no cap on the ticks here: a timer flush takes at least one of the MaxReq
\* events
TimerExpire == timerExpire(MaxReq)

Next ==
    \/ Track
    \/ TimerExpire
    \/ Receive
    \/ TimerTick
    \/ Drain
    \/ PrepareBatch
    \/ AppendRow
    \/ PrepareBatchError
    \/ AppendError
    \/ SendError
    \/ SendOk

Spec == Init /\ [][Next]_vars

\* InsertEvents returns, with an error or without
WriterReturns == PrepareBatchError \/ AppendError \/ SendError \/ SendOk

\* The same process under the scheduling Go gives it: time passes, a goroutine
\* that can step does, the writer calls return, and select, which picks at
\* random among its ready cases, does not ignore a case that is ready again
\* and again
SpecLive ==
    /\ Init
    /\ [][Next]_vars
    /\ WF_vars(TimerExpire)
    /\ SF_vars(Receive)
    /\ SF_vars(TimerTick)
    /\ WF_vars(Drain)
    /\ WF_vars(PrepareBatch)
    /\ WF_vars(AppendRow)
    /\ WF_vars(WriterReturns)

----------------------------------------------------------------------------
(* A burst of page views: enough requests to reach the size trigger        *)

InitBurst == Boot({<<>>})

TrackBurst ==
    /\ track(RawBase64(JsonObject(BeaconPage)), GoodHeaders, GoodAddr,
             GoodReply, MaxBurst, 1)
    /\ UNCHANGED elapsed

TimerExpireBurst == timerExpire(MaxTimerFlushes)

NextBurst ==
    \/ TrackBurst
    \/ TimerExpireBurst
    \/ Receive
    \/ TimerTick
    \/ Drain
    \/ PrepareBatch
    \/ AppendRow
    \/ PrepareBatchError
    \/ AppendError
    \/ SendError
    \/ SendOk

SpecBurst == InitBurst /\ [][NextBurst]_vars

----------------------------------------------------------------------------
(* Scenario S4 on a clock: 14 page views at once and one more 9 seconds     *)
(* later, the server's timer being in any phase when the first arrives      *)

\* the stopwatch starts with the first request and stops after the gap
Stopwatch(t) == IF nextId > 0 /\ t <= S4Gap THEN t + 1 ELSE t

TrackS4 ==
    /\ elapsed = (IF nextId < S4First THEN 0 ELSE S4Gap)
    /\ track(RawBase64(JsonObject(BeaconPage)), GoodHeaders, GoodAddr,
             GoodReply, S4First + 1, 1)
    /\ UNCHANGED elapsed

\* one second passes
Second ==
    /\ advance(1)
    /\ elapsed' = Stopwatch(elapsed)
    /\ UNCHANGED <<nextId, resp, chanSenders, queueData, pc, trigger, tmp,
                   batches, rows, errLogged, today, ip, sent, err, args,
                   statsResp,
                   proc, client, store, lock, local, collector, kv, block>>

NextS4 ==
    \/ TrackS4
    \/ Second
    \/ Receive
    \/ TimerTick
    \/ Drain
    \/ PrepareBatch
    \/ AppendRow
    \/ PrepareBatchError
    \/ AppendError
    \/ SendError
    \/ SendOk

SpecS4 == InitBurst /\ [][NextS4]_vars

----------------------------------------------------------------------------
(* One request under observation: what the client sends is fixed when the  *)
(* behaviour starts, the handler serves it and the pipeline runs on         *)

\* JSON objects that lack a member of the beacon, carry a referrer that
\* url.Parse rejects, or carry a member named after the untagged field
\* ReferrerHost of TrackingData
PartialBeacons ==
    {<<>>,
     [site_id |-> "S"],
     [tracking |-> BeaconPage.tracking],
     [site_id |-> "S",
      tracking |-> [type |-> "page", event |-> "/", referrer |-> "://missing-scheme"]],
     [site_id |-> "S",
      tracking |-> [type |-> "page", event |-> "/", referrer |-> "",
                    ReferrerHost |-> "evil.example"]]}

Payloads ==
    RawInputs
    \cup {RawBase64(JsonOther(k)) : k \in {"null", "string", "number"}}
    \cup {RawBase64(JsonObject(o)) : o \in PartialBeacons}

HeaderNames == {"X-Forwarded-For", "X-Forward-For", "X-Real-Ip"}

\* values a client or a proxy puts in a header
HeaderChoices(k) ==
    CASE k = "X-Forwarded-For" ->
           {<<"203.0.113.5", ",", " ", "10.0.0.1">>, <<"1.2.3.4">>}
      [] k = "X-Forward-For" -> {<<"5.6.7.8">>}
      [] k = "X-Real-Ip" -> {<<"9.9.9.9">>, <<"unknown">>}

\* http.Header of a request: any of the three headers, set or not
RequestHeaders ==
    UNION {{h \in [K -> UNION {HeaderChoices(k) : k \in K}] :
              \A k \in K : h[k] \in HeaderChoices(k)} : K \in SUBSET HeaderNames}

\* r.RemoteAddr: host and port, a host that is no address literal, no port
PeerAddrs == RemoteAddrs \cup {<<"localhost", ":", "80">>}

\* --ip: unset, an address, text that is no address
Overrides == {<<>>, <<"9.9.9.9">>, <<"bogus">>}

Requests ==
    [rawData : Payloads, hdr : RequestHeaders, remoteAddr : PeerAddrs,
     reply : GeoReplies]

InitOne == Started(Overrides, Requests, {<<>>})

\* the observed request is served
TrackOne ==
    /\ track(args.rawData, args.hdr, args.remoteAddr, args.reply, 1, 1)
    /\ UNCHANGED elapsed

NextOne ==
    \/ TrackOne
    \/ TimerExpire
    \/ Receive
    \/ TimerTick
    \/ Drain
    \/ PrepareBatch
    \/ AppendRow
    \/ PrepareBatchError
    \/ AppendError
    \/ SendError
    \/ SendOk

SpecOne == InitOne /\ [][NextOne]_vars

----------------------------------------------------------------------------
(* The aggregate reader: Queries.GetPageViews, GetUnique, GetStats          *)

\* WHERE site_id = $1
Where(table, site) == {i \in 1..Len(table) : table[i].site_id = site}

\* mutant: the range leaves out its two ends
HavingOpen(day, start, end) == start < day /\ day < end

\* HAVING occured_at BETWEEN $2 AND $3
Having(day, start, end) == start <= day /\ day <= end

\* GROUP BY occured_at, event: the groups that pass HAVING
PageViewGroups(table, data) ==
    {g \in {<<table[i].occured_at, table[i].event>> : i \in Where(table, data.SiteID)} :
        Having(g[1], data.Start, data.End)}

\* SELECT occured_at, event, COUNT(*)
PageViewMetric(table, data, g) ==
    [OccuredAt |-> g[1], Value |-> g[2],
     Count |-> Cardinality({i \in Where(table, data.SiteID) :
                              <<table[i].occured_at, table[i].event>> = g})]

\* GROUP BY occured_at, user_id, event: the groups that pass HAVING
UniqueGroups(table, data) ==
    {g \in {<<table[i].occured_at, table[i].user_id, table[i].event>> :
               i \in Where(table, data.SiteID)} :
        Having(g[1], data.Start, data.End)}

\* SELECT occured_at, user_id, COUNT(*)
UniqueMetric(table, data, g) ==
    [OccuredAt |-> g[1], Value |-> g[2],
     Count |-> Cardinality({i \in Where(table, data.SiteID) :
                              <<table[i].occured_at, table[i].user_id,
                                table[i].event>> = g})]

\* the orders in which the store may yield the groups of a query without
\* ORDER BY
Orderings(groups) ==
    {f \in [1..Cardinality(groups) -> groups] :
        \A i, j \in 1..Cardinality(groups) : i # j => f[i] # f[j]}

\* GetStats over the page-view query: one Metric per row scanned
GetPageViews(table, data, order) ==
    [i \in 1..Len(order) |-> PageViewMetric(table, data, order[i])]

\* GetStats over the unique-visitor query
GetUnique(table, data, order) ==
    [i \in 1..Len(order) |-> UniqueMetric(table, data, order[i])]

----------------------------------------------------------------------------
(* stats.ViewStats                                                         *)

\* json.Decoder.Decode into MetricData
UnmarshalMetricData(o) ==
    [SiteID |-> Field(o, "site_id", ""),
     Start |-> Field(o, "start", 0),
     End |-> Field(o, "end", 0),
     What |-> Field(o, "what", "")]

\* `if len(data.What) == 0 { data.What = "pv" }`
DefaultWhat(what) == IF Len(what) = 0 THEN "pv" ELSE what

\* the query the switch on data.What runs
QueryFor(what) ==
    CASE what = "pv" -> "pv"
      [] what = "uv" -> "uv"
      [] OTHER -> "none"

\* mutant: every request is answered 200
StatsStatusAlwaysOK(decodeErr, queryErr) == StatusOK

\* the status ViewStats answers with
StatsStatus(decodeErr, queryErr) ==
    IF decodeErr THEN StatusBadRequest
    ELSE IF queryErr THEN StatusInternalServerError
    ELSE StatusOK

\* http.Error: the status, a text/plain content type and the error's text
ErrorResponse(status, text, query) ==
    [status |-> status, contentType |-> "text/plain; charset=utf-8",
     kind |-> "text", text |-> text, items |-> <<>>, query |-> query]

\* json.Marshal(metrics) written with an implicit 200: a nil slice is null
JsonResponse(status, metrics, query) ==
    [status |-> status, contentType |-> "application/json",
     kind |-> IF metrics = <<>> THEN "null" ELSE "array", text |-> "",
     items |-> metrics, query |-> query]

\* ViewStats for the request `body`, the store failing the query or not
viewStats(body, storage, table) ==
    IF body.kind # "object"
    THEN {ErrorResponse(StatsStatus(TRUE, FALSE), "decode error", "none")}
    ELSE LET data == [UnmarshalMetricData(body.fields) EXCEPT
                          !.What = DefaultWhat(@)]
             query == QueryFor(data.What)
         IN  IF query # "none" /\ storage = "error"
             THEN {ErrorResponse(StatsStatus(FALSE, TRUE), "storage error", query)}
             ELSE IF query = "pv"
             THEN {JsonResponse(StatsStatus(FALSE, FALSE),
                                GetPageViews(table, data, order), query) :
                     order \in Orderings(PageViewGroups(table, data))}
             ELSE IF query = "uv"
             THEN {JsonResponse(StatsStatus(FALSE, FALSE),
                                GetUnique(table, data, order), query) :
                     order \in Orderings(UniqueGroups(table, data))}
             ELSE {JsonResponse(StatsStatus(FALSE, FALSE), <<>>, query)}

\* POST /stats/ is served
ViewStats ==
    /\ statsResp' \in viewStats(args.body, args.storage, rows)
    /\ UNCHANGED <<nextId, resp, chanSenders, queueData, pc, trigger, tmp, timer,
                   timerC, batches, rows, errLogged, today, elapsed, ip, sent,
                   err, args,
                   proc, client, store, lock, local, collector, kv, block>>

\* rows as InsertEvents writes them, for a site, a day, a page and a visitor
StoredRow(site, day, event, user) ==
    Row(QueueData(0, getGeoInfo(GoodReply), Parse(ChromeUA),
                  [SiteID |-> site,
                   Action |-> [UnmarshalTrackingData(BeaconPage.tracking) EXCEPT
                                   !.Event = event, !.Identity = user]]),
        day)

StatSites == {"A", "B"}
StatDays == {20261030, 20261031, 20261101}
StatEvents == {"/", "/a"}
StatUsers == {"", "u1"}

StoredRows ==
    {StoredRow(site, day, event, user) :
        site \in StatSites, day \in StatDays, event \in StatEvents,
        user \in StatUsers}

\* the events table: up to MaxRows rows
Tables == UNION {[1..n -> StoredRows] : n \in 0..MaxRows}

\* the `what` member of a request body: left out, or one of these
StatWhats == {"", "pv", "uv", "xx"}

\* request bodies: text that is no JSON object for MetricData, or an object
StatsBodies ==
    {[kind |-> "invalid", fields |-> <<>>]}
    \cup {[kind |-> "object",
           fields |-> [site_id |-> "A", start |-> a, end |-> b]] :
             a \in StatDays, b \in StatDays}
    \cup {[kind |-> "object",
           fields |-> [site_id |-> "A", start |-> a, end |-> b, what |-> w]] :
             a \in StatDays, b \in StatDays, w \in StatWhats}

StatsRequests == [body : StatsBodies, storage : {"ok", "error"}]

InitStats == Started({<<>>}, StatsRequests, Tables)

NextStats == ViewStats

SpecStats == InitStats /\ [][NextStats]_vars

----------------------------------------------------------------------------
(* The life of the process: Server.Init, Server.Run, start and             *)
(* gracefulShutdown                                                        *)

\* main has not yet called Init
Booting ==
    [main |-> "init", serve |-> "none", bound |-> FALSE, accepted |-> 0,
     signalled |-> FALSE, columnDB |-> "none", mainDB |-> "none",
     exited |-> FALSE, code |-> 0]

\* requests accepted by the server whose handler has not returned
InFlight == proc.accepted - nextId

NotProc ==
    <<nextId, resp, chanSenders, queueData, pc, trigger, tmp, timer, timerC,
      batches, rows, errLogged, today, elapsed, ip, sent, err, args, statsResp,
      client, store, lock, local, collector, kv, block>>

\* Init succeeds: both handles are open, tracking.New has started InitQueue;
\* Run starts the goroutine of start and blocks in gracefulShutdown on quit
InitOk ==
    /\ ~proc.exited
    /\ proc.main = "init"
    /\ proc' = [proc EXCEPT !.main = "quit", !.serve = "starting",
                             !.columnDB = "open", !.mainDB = "open"]
    /\ UNCHANGED NotProc

\* log.Fatal in NewColumnarDB (no handle is held) or in NewDatabase (the
\* columnar handle is open and is left so): a store is unreachable or the
\* schema cannot be created
InitFails ==
    /\ ~proc.exited
    /\ proc.main = "init"
    /\ \E columnDB \in {"none", "open"} :
          proc' = [proc EXCEPT !.exited = TRUE, !.code = 1,
                               !.columnDB = columnDB]
    /\ UNCHANGED NotProc

\* ListenAndServe binds the port and serves
Listen ==
    /\ ~proc.exited
    /\ proc.serve = "starting"
    /\ proc.main = "quit"
    /\ proc' = [proc EXCEPT !.serve = "listening", !.bound = TRUE]
    /\ UNCHANGED NotProc

\* ListenAndServe returns at once: the port cannot be bound, or Shutdown was
\* called before it (ErrServerClosed)
ListenFails ==
    /\ ~proc.exited
    /\ proc.serve = "starting"
    /\ proc' = [proc EXCEPT !.serve = "returned"]
    /\ UNCHANGED NotProc

\* `if err != nil { log.Fatal(err) }` in start: os.Exit(1)
ServeFatal ==
    /\ ~proc.exited
    /\ proc.serve = "returned"
    /\ proc' = [proc EXCEPT !.exited = TRUE, !.code = 1]
    /\ UNCHANGED NotProc

\* SIGINT or SIGTERM is delivered to quit
Signal ==
    /\ ~proc.exited
    /\ proc.main = "quit"
    /\ ~proc.signalled
    /\ proc' = [proc EXCEPT !.signalled = TRUE]
    /\ UNCHANGED NotProc

\* `<-quit` returns and httpServer.Shutdown closes the listeners, which makes
\* ListenAndServe return ErrServerClosed in the goroutine of start
ShutdownBegins ==
    /\ ~proc.exited
    /\ proc.main = "quit"
    /\ proc.signalled
    /\ proc' = [proc EXCEPT !.main = "shutdown",
                             !.serve = IF @ = "listening" THEN "returned" ELSE @]
    /\ UNCHANGED NotProc

\* Shutdown returns nil: no request is in flight any more
ShutdownReturns ==
    /\ ~proc.exited
    /\ proc.main = "shutdown"
    /\ InFlight = 0
    /\ proc' = [proc EXCEPT !.main = "close_column"]
    /\ UNCHANGED NotProc

\* Shutdown returns the context's error: 30 seconds passed with a request in
\* flight
ShutdownTimesOut ==
    /\ ~proc.exited
    /\ proc.main = "shutdown"
    /\ InFlight > 0
    /\ proc' = [proc EXCEPT !.main = "close_column"]
    /\ UNCHANGED NotProc

\* closeResources: s.columnDB.Close()
CloseColumn ==
    /\ ~proc.exited
    /\ proc.main = "close_column"
    /\ proc' = [proc EXCEPT !.main = "close_main", !.columnDB = "closed"]
    /\ UNCHANGED NotProc

\* closeResources: s.mainDB.Close(ctx)
CloseMain ==
    /\ ~proc.exited
    /\ proc.main = "close_main"
    /\ proc' = [proc EXCEPT !.main = "returned", !.mainDB = "closed"]
    /\ UNCHANGED NotProc

\* gracefulShutdown and Run return, and main with them
MainReturns ==
    /\ ~proc.exited
    /\ proc.main = "returned"
    /\ proc' = [proc EXCEPT !.exited = TRUE, !.code = 0]
    /\ UNCHANGED NotProc

\* the server accepts a request and starts its handler
Accept ==
    /\ ~proc.exited
    /\ proc.serve = "listening"
    /\ InFlight = 0
    /\ proc.accepted < MaxShutdownReq
    /\ proc' = [proc EXCEPT !.accepted = @ + 1]
    /\ UNCHANGED NotProc

\* the handler of the accepted request runs to its return
Handle ==
    /\ ~proc.exited
    /\ InFlight > 0
    /\ track(RawBase64(JsonObject(BeaconPage)), GoodHeaders, GoodAddr,
             GoodReply, MaxShutdownReq, MaxShutdownReq)
    /\ UNCHANGED elapsed

\* the goroutine of InitQueue runs while the process does
Up == ~proc.exited /\ proc.main # "init"

TimerExpireUp == Up /\ TimerExpire

ReceiveUp == Up /\ Receive

TimerTickUp == Up /\ TimerTick

DrainUp == Up /\ Drain

\* the writer calls fail, as they do on a closed handle
WriterFailsUp == Up /\ (PrepareBatchError \/ AppendError \/ SendError)

\* PrepareBatch succeeds on the open handle
PrepareBatchUp == Up /\ proc.columnDB = "open" /\ PrepareBatch

AppendRowUp == Up /\ AppendRow

\* the batch is sent over the open handle
SendOkUp == Up /\ proc.columnDB = "open" /\ SendOk

InitShutdown ==
    /\ Constructed({<<>>}, {NoArgs}, {<<>>}, {Noon})
    /\ proc = Booting
    /\ client = NoClient
    /\ store = NoStore

NextShutdown ==
    \/ InitOk
    \/ InitFails
    \/ Listen
    \/ ListenFails
    \/ ServeFatal
    \/ Signal
    \/ ShutdownBegins
    \/ ShutdownReturns
    \/ ShutdownTimesOut
    \/ CloseColumn
    \/ CloseMain
    \/ MainReturns
    \/ Accept
    \/ Handle
    \/ TimerExpireUp
    \/ ReceiveUp
    \/ TimerTickUp
    \/ DrainUp
    \/ PrepareBatchUp
    \/ AppendRowUp
    \/ WriterFailsUp
    \/ SendOkUp

SpecShutdown == InitShutdown /\ [][NextShutdown]_vars

----------------------------------------------------------------------------
(* The clock nowToInt reads: time.Now() in the zone of the server          *)

\* consecutive days, as time.Format("20060102") writes them
Days == <<20261031, 20261101, 20261102>>

DayAfter(d) == Days[(CHOOSE i \in 1..Len(Days) : Days[i] = d) + 1]

LastDay == Days[Len(Days)]

\* where the server runs: in UTC, east of it (its day begins earlier) or west
\* of it (its day begins later)
Zones == {"utc", "east", "west"}

\* a moment at which the day is the same in UTC and in the zone
Clocks == {[utc |-> Days[1], local |-> Days[1], zone |-> z] : z \in Zones}

\* the clock at the next midnight, that of UTC or that of the zone
NextMidnight(t) ==
    IF t.zone = "utc" THEN [t EXCEPT !.utc = DayAfter(@), !.local = DayAfter(@)]
    ELSE IF (t.zone = "east") = (t.utc = t.local)
         THEN [t EXCEPT !.local = DayAfter(@)]
         ELSE [t EXCEPT !.utc = DayAfter(@)]

\* time passes a midnight
Midnight ==
    /\ today.utc # LastDay
    /\ today.local # LastDay
    /\ today' = NextMidnight(today)
    /\ UNCHANGED <<nextId, resp, chanSenders, queueData, pc, trigger, tmp, timer,
                   timerC, batches, rows, errLogged, elapsed, ip, sent, err,
                   args, statsResp, proc, client, store, lock, local, collector, kv, block>>

TrackDay ==
    /\ track(RawBase64(JsonObject(BeaconPage)), GoodHeaders, GoodAddr,
             GoodReply, MaxDayReq, MaxDayReq)
    /\ UNCHANGED elapsed

TimerExpireDay == timerExpire(MaxDayReq)

InitDay == StartedAt({<<>>}, {NoArgs}, {<<>>}, Clocks)

NextDay ==
    \/ TrackDay
    \/ Midnight
    \/ TimerExpireDay
    \/ Receive
    \/ TimerTick
    \/ Drain
    \/ PrepareBatch
    \/ AppendRow
    \/ PrepareBatchError
    \/ AppendError
    \/ SendError
    \/ SendOk

SpecDay == InitDay /\ [][NextDay]_vars

----------------------------------------------------------------------------
(* The browser client: createClient of packages/client                     *)
(*                                                                         *)
(* client.queue is eventQueue, an event being the number createEvent made  *)
(* it under; flushTimer says the variable flushTimer is not null, pending  *)
(* that the timeout it names is still to fire; optedOut is the stored item *)
(* oa_opted_out; requests are the calls of fetch and sendBeacon so far,    *)
(* each with its batch, what made it, how it ended and whether the user    *)
(* had opted out when it was made                                          *)

BatchSizes == 1..MaxBatchSize

\* mutant: the batch is full only when it exceeds batchSize
BatchFullStrict(n, batchSize) == n > batchSize

\* `eventQueue.length >= batchSize`
BatchFull(n, batchSize) == n >= batchSize

\* The part of flush that runs before its first await: the timer is cleared,
\* the queue is copied and emptied, fetch is called
flush(c, by) ==
    IF c.queue = <<>> THEN c
    ELSE [c EXCEPT !.flushTimer = FALSE,
                   !.pending = IF c.flushTimer THEN FALSE ELSE @,
                   !.queue = <<>>,
                   !.requests = Append(@, [events |-> c.queue, by |-> by,
                                           outcome |-> "pending",
                                           optedOut |-> c.optedOut])]

\* queueEvent
queueEvent(c, e) ==
    IF c.optedOut THEN c
    ELSE LET q == [c EXCEPT !.queue = Append(@, e)]
         IN  IF BatchFull(Len(q.queue), q.batchSize) THEN flush(q, "size")
             ELSE IF ~q.flushTimer
                  THEN [q EXCEPT !.flushTimer = TRUE, !.pending = TRUE]
                  ELSE q

\* the queue when the request that carried `events` has ended: a response
\* that is not ok puts them back and throws into the catch, which puts them
\* back; a rejected fetch reaches the catch only
Requeued(outcome, events, queue) ==
    CASE outcome = "ok" -> queue
      [] outcome = "network_error" -> events \o queue
      [] outcome = "http_error" -> events \o (events \o queue)

\* createClient with the option autoTrack.pageViews set or not: when set, the
\* first page view is queued at once
createClient(batchSize, pageViews) ==
    LET c == [NoClient EXCEPT !.batchSize = batchSize]
    IN  IF pageViews THEN [queueEvent(c, 1) EXCEPT !.next = 2] ELSE c

NotClient ==
    <<nextId, resp, chanSenders, queueData, pc, trigger, tmp, timer, timerC,
      batches, rows, errLogged, today, elapsed, ip, sent, err, args, statsResp,
      proc, store, lock, local, collector, kv, block>>

\* track, page or identify: createEvent, then queueEvent
ClientTrack ==
    /\ client.next <= MaxEvents
    /\ Len(client.requests) < MaxFetches
    /\ client' = [queueEvent(client, client.next) EXCEPT !.next = @ + 1]
    /\ UNCHANGED NotClient

\* the callback of setTimeout runs: flush()
ClientTimer ==
    /\ client.pending
    /\ Len(client.requests) < MaxFetches
    /\ client' = flush([client EXCEPT !.pending = FALSE], "timer")
    /\ UNCHANGED NotClient

\* the page calls flush()
ClientFlush ==
    /\ Len(client.requests) < MaxFetches
    /\ client.queue # <<>>
    /\ client' = flush(client, "manual")
    /\ UNCHANGED NotClient

\* the promise of fetch settles and flush runs on from its await
FetchSettles(outcome) ==
    /\ \E i \in 1..Len(client.requests) :
          /\ client.requests[i].outcome = "pending"
          /\ client' = [client EXCEPT
                          !.requests[i].outcome = outcome,
                          !.queue = Requeued(outcome, client.requests[i].events, @)]
    /\ UNCHANGED NotClient

FetchOk == FetchSettles("ok")

FetchHttpError == FetchSettles("http_error")

FetchNetworkError == FetchSettles("network_error")

\* optOut: the item is stored and the queue emptied, whatever they were
ClientOptOut ==
    /\ client' = [client EXCEPT !.optedOut = TRUE, !.queue = <<>>]
    /\ UNCHANGED NotClient

\* optIn
ClientOptIn ==
    /\ client.optedOut
    /\ client' = [client EXCEPT !.optedOut = FALSE]
    /\ UNCHANGED NotClient

\* the listener of beforeunload: sendBeacon with the queue, which it leaves
\* as it is, like the timer; the page runs on
ClientUnload ==
    /\ client.queue # <<>>
    /\ Len(client.requests) < MaxFetches
    /\ client' = [client EXCEPT
                    !.requests = Append(@, [events |-> client.queue,
                                            by |-> "unload",
                                            outcome |-> "beacon",
                                            optedOut |-> client.optedOut])]
    /\ UNCHANGED NotClient

InitClient ==
    /\ Constructed({<<>>}, {NoArgs}, {<<>>}, {Noon})
    /\ proc = Serving
    /\ store = NoStore
    /\ \E batchSize \in BatchSizes, pageViews \in BOOLEAN :
          client = createClient(batchSize, pageViews)

NextClient ==
    \/ ClientTrack
    \/ ClientTimer
    \/ ClientFlush
    \/ FetchOk
    \/ FetchHttpError
    \/ FetchNetworkError
    \/ ClientOptOut
    \/ ClientOptIn
    \/ ClientUnload

SpecClient == InitClient /\ [][NextClient]_vars

\* The client left to itself: the page calls track, page or identify, but
\* nothing obliges it to; a timeout that is set fires, and a fetch that was
\* made settles
FetchSettled ==
    \/ FetchOk
    \/ FetchHttpError
    \/ FetchNetworkError

NextClientLive ==
    \/ ClientTrack
    \/ ClientTimer
    \/ FetchOk
    \/ FetchHttpError
    \/ FetchNetworkError

SpecClientLive ==
    /\ InitClient
    /\ [][NextClientLive]_vars
    /\ WF_vars(ClientTimer)
    /\ WF_vars(FetchSettled)

----------------------------------------------------------------------------
(* MemoryStorage of packages/pyrrhos (and its copy in packages/core)        *)
(*                                                                         *)
(* store.events is the array `events`; store.all is every event handed to  *)
(* storeEvents so far, in order, and store.last the length of the last     *)
(* batch                                                                   *)

EventTypes == {"pageview", "click"}

\* the batches a caller passes: up to MaxBatch events, numbered on from `n`
NewBatches(n) ==
    UNION {{[i \in 1..k |-> [id |-> n + i, type |-> ts[i]]] : ts \in [1..k -> EventTypes]}
             : k \in 0..MaxBatch}

\* Array.prototype.splice(0, deleteCount): what is left of the array
Splice0(a, deleteCount) ==
    IF deleteCount <= 0 THEN a
    ELSE IF deleteCount >= Len(a) THEN <<>>
    ELSE SubSeq(a, deleteCount + 1, Len(a))

\* mutant: the events beyond the limit are cut off at the end of the array
TruncatedTail(a, maxEvents) ==
    IF Len(a) > maxEvents THEN SubSeq(a, 1, maxEvents) ELSE a

\* `if (events.length > maxEvents) events.splice(0, events.length - maxEvents)`
Truncated(a, maxEvents) ==
    IF Len(a) > maxEvents THEN Splice0(a, Len(a) - maxEvents) ELSE a

\* storeEvents
storeEvents(st, newEvents) ==
    [st EXCEPT !.events = Truncated(@ \o newEvents, st.maxEvents),
               !.all = @ \o newEvents,
               !.last = Len(newEvents)]

NotStore ==
    <<nextId, resp, chanSenders, queueData, pc, trigger, tmp, timer, timerC,
      batches, rows, errLogged, today, elapsed, ip, sent, err, args, statsResp,
      proc, client, lock, local, collector, kv, block>>

StoreEvents ==
    /\ \E newEvents \in NewBatches(Len(store.all)) :
          /\ Len(store.all) + Len(newEvents) <= MaxStored
          /\ store' = storeEvents(store, newEvents)
    /\ UNCHANGED NotStore

InitStorage ==
    /\ Constructed({<<>>}, {NoArgs}, {<<>>}, {Noon})
    /\ proc = Serving
    /\ client = NoClient
    /\ \E maxEvents \in 0..MaxCapacity : store = [NoStore EXCEPT !.maxEvents = maxEvents]

NextStorage == StoreEvents

SpecStorage == InitStorage /\ [][NextStorage]_vars

----------------------------------------------------------------------------
(* InitQueue and InsertEvents step by step, with EVQueue.lock: the places   *)
(* where the consumer can be suspended are the select and the writer calls *)

\* mutant: InsertEvents gives the lock back when it returns
UnlockDeferred(l) == l

\* lock.Unlock() and lock.RUnlock()
Unlock(l) == "free"

NotConsumer ==
    <<nextId, resp, chanSenders, rows, errLogged, today, elapsed, ip, sent,
      err, args, statsResp, proc, client, store, collector, kv, block>>

\* case data := <-query.Queue.Chan
ReceiveData ==
    /\ pc = "select"
    /\ \E data \in chanSenders :
          /\ chanSenders' = chanSenders \ {data}
          /\ local' = [local EXCEPT !.data = <<data>>]
    /\ pc' = "received"
    /\ trigger' = "none"
    /\ UNCHANGED <<nextId, resp, queueData, tmp, timer, timerC, batches, rows,
                   errLogged, today, elapsed, ip, sent, err, args, statsResp,
                   proc, client, store, lock, collector, kv, block>>

\* lock.Lock(), the append and the count
AppendLocked ==
    /\ pc = "received"
    /\ lock = "free"
    /\ lock' = "write"
    /\ queueData' = queueData \o local.data
    /\ local' = [data |-> <<>>, count |-> Len(queueData) + 1]
    /\ pc' = "appended"
    /\ UNCHANGED <<trigger, tmp, timer, timerC, batches>>
    /\ UNCHANGED NotConsumer

\* lock.Unlock() and `if count >= 15`
UnlockAppended ==
    /\ pc = "appended"
    /\ lock' = Unlock(lock)
    /\ IF SizeTrigger(local.count)
       THEN pc' = "insert" /\ trigger' = "size"
       ELSE pc' = "select" /\ trigger' = "none"
    /\ timer' = TimerAfterAppend(timer, local.count)
    /\ UNCHANGED <<queueData, tmp, timerC, batches, local>>
    /\ UNCHANGED NotConsumer

\* case <-timer.C and timer.Reset
TakeTick ==
    /\ pc = "select"
    /\ timerC = 1
    /\ timerC' = 0
    /\ timer' = Reset(timer)
    /\ pc' = "ticked"
    /\ trigger' = "none"
    /\ UNCHANGED <<queueData, tmp, batches, lock, local, collector, kv, block>>
    /\ UNCHANGED NotConsumer

\* lock.RLock() and the count
CountLocked ==
    /\ pc = "ticked"
    /\ lock = "free"
    /\ lock' = "read"
    /\ local' = [local EXCEPT !.count = Len(queueData)]
    /\ pc' = "counted"
    /\ UNCHANGED <<queueData, trigger, tmp, timer, timerC, batches>>
    /\ UNCHANGED NotConsumer

\* lock.RUnlock() and `if count > 0`
UnlockCounted ==
    /\ pc = "counted"
    /\ lock' = Unlock(lock)
    /\ IF TimeTrigger(local.count)
       THEN pc' = "insert" /\ trigger' = "timer"
       ELSE pc' = "select" /\ trigger' = "none"
    /\ UNCHANGED <<queueData, tmp, timer, timerC, batches, local>>
    /\ UNCHANGED NotConsumer

\* InsertEvents: lock.Lock(), the copy into tmp and `queueData = nil`
MoveLocked ==
    /\ pc = "insert"
    /\ lock = "free"
    /\ lock' = "write"
    /\ tmp' = queueData
    /\ queueData' = Drained(queueData)
    /\ batches' = Append(batches, [ids |-> Ids(queueData), by |-> trigger,
                                   result |-> "open"])
    /\ pc' = "moved"
    /\ UNCHANGED <<trigger, timer, timerC, local>>
    /\ UNCHANGED NotConsumer

\* InsertEvents: lock.Unlock(), before PrepareBatch
UnlockMoved ==
    /\ pc = "moved"
    /\ lock' = Unlock(lock)
    /\ pc' = "writer"
    /\ UNCHANGED <<queueData, trigger, tmp, timer, timerC, batches, local>>
    /\ UNCHANGED NotConsumer

NextLock ==
    \/ TrackBurst
    \/ TimerExpireBurst
    \/ ReceiveData
    \/ AppendLocked
    \/ UnlockAppended
    \/ TakeTick
    \/ CountLocked
    \/ UnlockCounted
    \/ MoveLocked
    \/ UnlockMoved
    \/ PrepareBatch
    \/ AppendRow
    \/ PrepareBatchError
    \/ AppendError
    \/ SendError
    \/ SendOk

SpecLock == InitBurst /\ [][NextLock]_vars

----------------------------------------------------------------------------
(* The collector of packages/core: POST /api/v1/events behind authenticate  *)
(* and rateLimit                                                           *)
(*                                                                         *)
(* A header value is a sequence of pieces of text, <<>> for a header that  *)
(* is not sent; collector.log has one entry per request dispatched, in the  *)
(* order of arrival, and collector.stored the log index of every request   *)
(* that reached storage.storeEvents                                        *)

\* String.prototype.replace(piece, ""): the first occurrence goes
RemoveFirst(h, piece) ==
    IF \E i \in 1..Len(h) : h[i] = piece
    THEN LET i == CHOOSE k \in 1..Len(h) :
                     h[k] = piece /\ \A m \in 1..(k - 1) : h[m] # piece
         IN  SubSeq(h, 1, i - 1) \o SubSeq(h, i + 1, Len(h))
    ELSE h

\* `authHeader?.replace("Bearer ", "")`
TokenOf(authHeader) == RemoveFirst(authHeader, "Bearer ")

\* mutant: any token passes, only its absence is refused
TokenRejectedWhenMissing(token, writeKeys) == token = <<>>

\* `!token || !writeKeys.includes(token)`
TokenRejected(token, writeKeys) == token = <<>> \/ token \notin writeKeys

\* authenticate: whether next() is called
authenticate(writeKeys, authHeader) ==
    IF writeKeys = {} THEN TRUE
    ELSE ~TokenRejected(TokenOf(authHeader), writeKeys)

\* the key of rateLimit: the first header that is set, else "unknown"
RateLimitKey(req) ==
    IF req.cf # "" THEN req.cf
    ELSE IF req.xff # "" THEN req.xff
    ELSE IF req.real # "" THEN req.real
    ELSE "unknown"

\* `rateLimits.eventsPerMinute || 1000`
EventsPerMinute(option) ==
    IF option = <<>> \/ option = <<0>> THEN DefaultEventsPerMinute ELSE option[1]

\* Map.get
MapGet(m, k) == IF k \in DOMAIN m THEN <<m[k]>> ELSE <<>>

\* Map.set
MapSet(m, k, v) == [x \in DOMAIN m \cup {k} |-> IF x = k THEN v ELSE m[x]]

\* rateLimit: the store it leaves and whether next() is called
rateLimit(m, key, now, option) ==
    LET current == MapGet(m, key)
    IN  IF current = <<>> \/ now > current[1].resetTime
        THEN [next |-> TRUE,
              store |-> MapSet(m, key, [count |-> 1, resetTime |-> now + WindowMs])]
        ELSE [next |-> current[1].count + 1 <= EventsPerMinute(option),
              store |-> MapSet(m, key, [current[1] EXCEPT !.count = @ + 1])]

\* the handler itself, on a request that got through both: its status and
\* whether it calls storage.storeEvents; a body that is no JSON, or no body,
\* ends in the catch
EventsHandler(req) ==
    IF req.dnt THEN [status |-> 200, stores |-> FALSE]
    ELSE CASE req.body \in {"invalid_json", "none"} ->
                  [status |-> 500, stores |-> FALSE]
           [] req.body = "too_large" -> [status |-> 413, stores |-> FALSE]
           [] req.body = "no_valid" -> [status |-> 400, stores |-> FALSE]
           [] OTHER -> [status |-> 200, stores |-> TRUE]

\* what a dispatched request leaves in the log: status 0 while no response
\* is made; at says where its handler is, forwarded that it is the request
\* the handler of /collect made of the entry before it
LogEntry(req, path, now, status, counted, at, forwarded) ==
    [path |-> path, auth |-> req.auth, key |-> RateLimitKey(req), dnt |-> req.dnt,
     body |-> req.body, time |-> now, status |-> status, counted |-> counted,
     stored |-> FALSE, at |-> at, forwarded |-> forwarded]

\* request i is answered; `return app.fetch(...)` makes the response of a
\* forwarded request that of the /collect request it came from
Respond(log, i, status) ==
    LET answered == [log EXCEPT ![i].at = "done", ![i].status = status]
    IN  IF log[i].forwarded
        THEN [answered EXCEPT ![i - 1].at = "done", ![i - 1].status = status]
        ELSE answered

\* the log with one more request, answered at once when status is not 0
Logged(log, entry) ==
    IF entry.status = 0 THEN Append(log, entry)
    ELSE Respond(Append(log, entry), Len(log) + 1, entry.status)

\* `body: c.req.body` of the Request /collect makes: the body of the
\* incoming request where the request object handed to the handler has
\* that property, none where it has not (the version of hono decides)
ForwardedBodies(req) == {req.body, "none"}

\* app.fetch of a POST, up to the first await that waits: authenticate,
\* rateLimit, and the handler of the route; that of /api/v1/events answers a
\* DNT request or goes on to `await c.req.json()`, that of /collect
\* dispatches the request again as one for /api/v1/events, with its headers
\* and with `body`
RECURSIVE Dispatch(_, _, _, _, _)
Dispatch(c, req, path, body, forwarded) ==
    IF ~authenticate(c.writeKeys, req.auth)
    THEN [c EXCEPT !.log = Logged(@, LogEntry(req, path, c.now, 401, FALSE,
                                              "done", forwarded))]
    ELSE LET rl == rateLimit(c.rateLimitStore, RateLimitKey(req), c.now,
                             c.eventsPerMinute)
             counted == [c EXCEPT !.rateLimitStore = rl.store]
         IN  IF ~rl.next
             THEN [counted EXCEPT
                     !.log = Logged(@, LogEntry(req, path, c.now, 429, TRUE,
                                                "done", forwarded))]
             ELSE IF path = "/collect"
             THEN Dispatch([counted EXCEPT
                              !.log = Logged(@, LogEntry(req, path, c.now, 0, TRUE,
                                                         "forwarded", forwarded))],
                           [req EXCEPT !.body = body], "/api/v1/events", body,
                           TRUE)
             ELSE IF req.dnt
             THEN [counted EXCEPT
                     !.log = Logged(@, LogEntry(req, path, c.now,
                                                EventsHandler(req).status, TRUE,
                                                "done", forwarded))]
             ELSE [counted EXCEPT
                     !.log = Logged(@, LogEntry(req, path, c.now, 0, TRUE, "json",
                                                forwarded))]

AuthHeaders ==
    {<<>>, <<"Bearer ", "k1">>, <<"Bearer ", "bad">>, <<"k1">>,
     <<"Bearer ", "Bearer ", "k1">>}

\* requests that differ in their Authorization header, their body and DNT
AuthRequests ==
    [auth : AuthHeaders, cf : {""}, xff : {""}, real : {""},
     dnt : BOOLEAN, body : {"batch", "invalid_json"}]

\* requests of a client with a key, that differ in the address headers
RateRequests ==
    [auth : {<<"Bearer ", "k1">>}, cf : {"", "a"}, xff : {"", "b"},
     real : {"", "a"}, dnt : {FALSE}, body : {"batch"}]

\* collector(options) with writeKeys and rateLimits.eventsPerMinute given or
\* not
Collectors ==
    {[NoCollector EXCEPT !.writeKeys = w, !.eventsPerMinute = e] :
        w \in {{}, {<<"k1">>}}, e \in {<<>>, <<0>>, <<1>>, <<2>>}}

NotCollector ==
    <<nextId, resp, chanSenders, queueData, pc, trigger, tmp, timer, timerC,
      batches, rows, errLogged, today, elapsed, ip, sent, err, args, statsResp,
      proc, client, store, lock, local, kv, block>>

\* a POST /api/v1/events arrives
PostEvents(requests) ==
    /\ Len(collector.log) < MaxPosts
    /\ \E req \in requests :
          collector' = Dispatch(collector, req, "/api/v1/events", req.body, FALSE)
    /\ UNCHANGED NotCollector

\* a POST /collect arrives
PostCollect(requests) ==
    /\ Len(collector.log) + 1 < MaxPosts
    /\ \E req \in requests : \E body \in ForwardedBodies(req) :
          collector' = Dispatch(collector, req, "/collect", body, FALSE)
    /\ UNCHANGED NotCollector

\* `await c.req.json()` settles: the handler runs on to a response, or to the
\* call of storage.storeEvents
BodyRead ==
    /\ \E i \in 1..Len(collector.log) :
          /\ collector.log[i].at = "json"
          /\ LET h == EventsHandler(collector.log[i])
             IN  collector' =
                   IF h.stores
                   THEN [collector EXCEPT !.log[i].at = "storing",
                                          !.log[i].stored = TRUE,
                                          !.stored = Append(@, i)]
                   ELSE [collector EXCEPT !.log = Respond(@, i, h.status)]
    /\ UNCHANGED NotCollector

\* `await storage.storeEvents(...)` settles: 200, or 500 from the catch
StoreSettles(status) ==
    /\ \E i \in 1..Len(collector.log) :
          /\ collector.log[i].at = "storing"
          /\ collector' = [collector EXCEPT !.log = Respond(@, i, status)]
    /\ UNCHANGED NotCollector

StoreResolves == StoreSettles(200)

StoreRejects == StoreSettles(500)

\* half a window passes, or one millisecond after that
CollectorClock ==
    /\ collector.now < MaxClockSteps * (WindowMs \div 2)
    /\ \E d \in {1, WindowMs \div 2} :
          /\ d = 1 => collector.now % (WindowMs \div 2) = 0
          /\ collector' = [collector EXCEPT !.now = @ + d]
    /\ UNCHANGED NotCollector

InitCollector ==
    /\ ConstructedWith({<<>>}, {NoArgs}, {<<>>}, {Noon}, Collectors)
    /\ proc = Serving
    /\ client = NoClient
    /\ store = NoStore

PostAuth == PostEvents(AuthRequests)

CollectAuth == PostCollect(AuthRequests)

NextCollector ==
    \/ PostAuth
    \/ CollectAuth
    \/ BodyRead
    \/ StoreResolves
    \/ StoreRejects

SpecCollector == InitCollector /\ [][NextCollector]_vars

PostRate == PostEvents(RateRequests)

CollectRate == PostCollect(RateRequests)

NextRate ==
    \/ PostRate
    \/ CollectRate
    \/ CollectorClock
    \/ BodyRead
    \/ StoreResolves

SpecRate == InitCollector /\ [][NextRate]_vars

----------------------------------------------------------------------------
(* KVStorage of packages/storage-kv                                        *)
(*                                                                         *)
(* kv.data is the namespace, a day's key being the number of the day;      *)
(* kv.tasks holds, for every storeEvents call and every day of its events, *)
(* the async function that gets the key and puts it back, with the place   *)
(* it has reached; kv.query is the last queryEvents, with the days it      *)
(* listed, the gets that have settled and the events collected so far      *)

\* `new Date(t).toISOString().split('T')[0]`: the UTC day of a timestamp
DayOf(t) == t \div DayMs

\* namespace.get(key, "json") || []
KvGet(data, day) == IF day \in DOMAIN data THEN data[day] ELSE <<>>

\* the reduce of storeEvents: the events of one day, in their order
EventsOfDay(events, day) == SelectSeq(events, LAMBDA e : DayOf(e.timestamp) = day)

\* the loop of queryEvents: the day of currentDate, then a day later, while
\* currentDate <= endDate
RECURSIVE DaysToQuery(_, _)
DaysToQuery(currentDate, endDate) ==
    IF currentDate > endDate THEN <<>>
    ELSE <<DayOf(currentDate)>> \o DaysToQuery(currentDate + DayMs, endDate)

\* the filter of queryEvents on the events of one key
InRange(events, start, end) ==
    {e \in Range(events) : e.timestamp >= start /\ e.timestamp <= end}

\* queryEvents up to its await: the days are listed and a get is issued for
\* each; `read` are the gets that have settled, `before` what the namespace
\* held when the call was made
queryEvents(data, start, end) ==
    [start |-> start, end |-> end, days |-> DaysToQuery(start, end),
     read |-> {}, events |-> {},
     before |-> UNION {Range(data[d]) : d \in DOMAIN data}]

\* timestamps on both sides of two midnights
KvTimes == {DayMs - 1000, DayMs + 1000, 3 * DayMs - 1000}

\* the batches a caller stores: events numbered on from n
KvBatches(n) ==
    UNION {{[i \in 1..k |-> [id |-> n + i, timestamp |-> ts[i]]] : ts \in [1..k -> KvTimes]}
             : k \in 1..MaxKvBatch}

NotKV ==
    <<nextId, resp, chanSenders, queueData, pc, trigger, tmp, timer, timerC,
      batches, rows, errLogged, today, elapsed, ip, sent, err, args, statsResp,
      proc, client, store, lock, local, collector, block>>

\* storeEvents is called: the events are grouped and one async function per
\* day is started
KvStoreEvents ==
    /\ kv.calls < MaxCalls
    /\ \E events \in KvBatches(kv.calls * MaxKvBatch) :
          LET days == {DayOf(events[i].timestamp) : i \in 1..Len(events)}
              order == CHOOSE f \in [1..Cardinality(days) -> days] :
                          \A a, b \in 1..Cardinality(days) : a < b => f[a] < f[b]
          IN  kv' = [kv EXCEPT
                       !.calls = @ + 1,
                       !.tasks = @ \o [i \in 1..Cardinality(days) |->
                                         [call |-> kv.calls + 1, day |-> order[i],
                                          events |-> EventsOfDay(events, order[i]),
                                          at |-> "get", existing |-> <<>>]]]
    /\ UNCHANGED NotKV

\* `await namespace.get(key, "json")` returns
KvTaskGet ==
    /\ \E i \in 1..Len(kv.tasks) :
          /\ kv.tasks[i].at = "get"
          /\ kv' = [kv EXCEPT !.tasks[i].at = "put",
                              !.tasks[i].existing = KvGet(kv.data, kv.tasks[i].day)]
    /\ UNCHANGED NotKV

\* namespace.put(key, JSON.stringify([...existing, ...dayEvents]))
KvTaskPut ==
    /\ \E i \in 1..Len(kv.tasks) :
          /\ kv.tasks[i].at = "put"
          /\ kv' = [kv EXCEPT
                       !.tasks[i].at = "done",
                       !.data = MapSet(@, kv.tasks[i].day,
                                       kv.tasks[i].existing \o kv.tasks[i].events)]
    /\ UNCHANGED NotKV

\* the last queryEvents has returned, or none was called
QueryDone ==
    IF kv.query = <<>> THEN TRUE
    ELSE kv.query[1].read = 1..Len(kv.query[1].days)

\* queryEvents({start, end}) is called
KvQuery ==
    /\ QueryDone
    /\ \E start \in KvTimes, end \in KvTimes :
          /\ start <= end
          /\ kv' = [kv EXCEPT !.query = <<queryEvents(kv.data, start, end)>>]
    /\ UNCHANGED NotKV

\* the get of one of its days settles: the events of the key that lie in the
\* range are pushed to allEvents
KvQueryGet ==
    /\ kv.query # <<>>
    /\ \E i \in (1..Len(kv.query[1].days)) \ kv.query[1].read :
          kv' = [kv EXCEPT
                   !.query[1].read = @ \cup {i},
                   !.query[1].events =
                       @ \cup InRange(KvGet(kv.data, kv.query[1].days[i]),
                                      kv.query[1].start, kv.query[1].end)]
    /\ UNCHANGED NotKV

InitKV ==
    /\ Constructed({<<>>}, {NoArgs}, {<<>>}, {Noon})
    /\ proc = Serving
    /\ client = NoClient
    /\ store = NoStore

NextKV ==
    \/ KvStoreEvents
    \/ KvTaskGet
    \/ KvTaskPut
    \/ KvQuery
    \/ KvQueryGet

SpecKV == InitKV /\ [][NextKV]_vars

----------------------------------------------------------------------------
(* Properties                                                              *)

BatchIds == Flatten([i \in 1..Len(batches) |-> batches[i].ids])

NoDuplicates(s) == \A i, j \in 1..Len(s) : i # j => s[i] # s[j]

RowsOf(n) == {i \in 1..Len(rows) : rows[i].id = n}

\* C10: track answers 200 OK with an empty body on every return path
C10_AlwaysOkEmptyBody ==
    resp.id > 0 => resp.status = StatusOK /\ resp.body = ""

C10_Witness ==
    /\ resp.path = "geo_error"
    /\ resp.status = StatusOK
    /\ \E n \in 1..Len(sent) : ~sent[n].decodable

\* C2: an append that brings the buffer to 15 or more events sends the
\* consumer straight into InsertEvents: until the drain it receives no event
\* and handles no tick, and the drain takes the whole buffer
C2_SizeTriggerImmediate ==
    [][/\ (Len(queueData') > Len(queueData) /\ Len(queueData') >= FlushSize)
            => (pc' = "insert" /\ trigger' = "size")
       /\ (pc = "insert" /\ trigger = "size")
            => /\ Len(queueData') <= Len(queueData)
               /\ timerC' >= timerC
               /\ pc' # pc => /\ tmp' = queueData
                              /\ queueData' = <<>>
                              /\ Len(batches') = Len(batches) + 1
                              /\ batches'[Len(batches')].ids = Ids(queueData)
                              /\ pc' = "writer"]_vars

C2_Witness ==
    \E i \in 1..Len(batches) :
        batches[i].by = "size" /\ Len(batches[i].ids) = FlushSize

\* C4: while the buffer holds 1..14 events and the consumer is not serving a
\* timer tick, no batch is handed to the writer
C4_NoFlushBelowThreshold ==
    [][(Len(queueData) \in 1..(FlushSize - 1) /\ trigger # "timer")
         => (Len(batches') = Len(batches) /\ tmp' = tmp)]_vars

C4_Witness ==
    /\ Len(queueData) = FlushSize - 1
    /\ pc = "select"
    /\ batches = <<>>
    /\ rows = <<>>

\* C9: every received event is in at most one batch, a drained event is no
\* longer in the buffer, and no event has two rows
C9_AtMostOnce ==
    /\ NoDuplicates(BatchIds \o Ids(queueData))
    /\ NoDuplicates(Ids(rows))
    /\ \A d \in chanSenders : d.id \notin Range(BatchIds \o Ids(queueData))

C9_Witness ==
    /\ Len(batches) >= 2
    /\ batches[1].result = "ok"
    /\ Len(rows) >= 1
    /\ queueData # <<>>

\* C7: every return of InsertEvents leaves the table with all rows of the
\* drained batch added or with none added, and nothing else changes the table
C7_BatchAtomic ==
    [][IF pc \in {"writer", "append"} /\ pc' = "select"
       THEN \/ rows' = rows
            \/ /\ Len(rows') = Len(rows) + Len(tmp)
               /\ SubSeq(rows', 1, Len(rows)) = rows
               /\ Ids(SubSeq(rows', Len(rows) + 1, Len(rows'))) = Ids(tmp)
       ELSE rows' = rows]_vars

C7_Witness ==
    /\ Len(batches) = 2
    /\ batches[1].result = "ok"
    /\ Len(batches[2].ids) >= 2
    /\ batches[2].result = "error"
    /\ err = "append_error"
    /\ Len(rows) = Len(batches[1].ids)

FailedIds ==
    UNION {Range(batches[i].ids) :
             i \in {j \in 1..Len(batches) :
                      batches[j].result = "error"}}

\* C8: when InsertEvents returns an error the drained events are not put
\* back, appear in no later batch and in no row; the consumer logs the error
\* and is back in its select
C8_FailureDiscardsBatch ==
    /\ [][(pc \in {"writer", "append"} /\ pc' = "select"
             /\ err' # "ok")
           => /\ queueData' = queueData
              /\ rows' = rows
              /\ errLogged' = errLogged + 1
              /\ Len(batches') = Len(batches)
              /\ pc' = "select"]_vars
    /\ [](/\ FailedIds \cap Range(Ids(queueData)) = {}
          /\ FailedIds \cap Range(Ids(rows)) = {}
          /\ FailedIds \cap {d.id : d \in chanSenders} = {}
          /\ NoDuplicates(BatchIds))

C8_Witness ==
    /\ Len(batches) >= 2
    /\ batches[1].result = "error"
    /\ batches[2].result = "ok"
    /\ err = "ok"
    /\ errLogged = 1
    /\ pc = "select"

\* C6: when the handler of request I1 returned before the handler of I2
\* started, I1's event precedes I2's in a batch that holds both
C6_BatchKeepsRequestOrder ==
    \A b \in 1..Len(batches) :
        \A i, j \in 1..Len(batches[b].ids) :
            i < j => batches[b].ids[i] < batches[b].ids[j]

Closed(n) ==
    \E i \in 1..Len(batches) :
        n \in Range(batches[i].ids) /\ batches[i].result # "open"

Stored(n) ==
    \E i \in 1..Len(batches) :
        n \in Range(batches[i].ids) /\ batches[i].result = "ok"

\* the row carries the five fields of the beacon x
RowMatches(r, x) ==
    /\ r.site_id = x.site_id
    /\ r.type = x.tracking.type
    /\ r.event = x.tracking.event
    /\ r.category = x.tracking.category
    /\ r.referrer = x.tracking.referrer

OneMatchingRow(n) ==
    /\ Cardinality(RowsOf(n)) = 1
    /\ \A i \in RowsOf(n) : RowMatches(rows[i], sent[n].wire)

\* C1 as claimed: every request with a decodable beacon eventually has
\* exactly one row, which carries the beacon's fields
C1_EveryBeaconStored ==
    \A n \in 1..MaxReq :
        (Len(sent) >= n /\ sent[n].decodable) ~> OneMatchingRow(n)

\* C1 as the code has it: a request that reaches `go CreateEvent` is
\* eventually drained into a batch whose writer calls return; a request has
\* one row, carrying its beacon's fields, when that batch was sent, and no row
\* otherwise (it returned early, its batch failed or is still to come)
C1_EnqueuedBeaconStoredOnce ==
    /\ \A n \in 1..MaxReq :
           (resp.id = n /\ resp.path = "enqueued") ~> Closed(n)
    /\ [](\A n \in 1..Len(sent) :
              IF Stored(n)
              THEN sent[n].decodable /\ OneMatchingRow(n)
              ELSE RowsOf(n) = {})

C1_Witness ==
    /\ Len(sent) >= 3
    /\ sent[1].decodable /\ Stored(1) /\ OneMatchingRow(1)
    /\ rows[1].site_id = "S" /\ rows[1].referrer_domain = "example.com"
    /\ sent[2].decodable /\ ~Closed(2) /\ 2 \notin Range(BatchIds)
    /\ 2 \notin {d.id : d \in chanSenders} \cup Range(Ids(queueData))
    /\ Closed(3) /\ ~Stored(3)

\* C3: a handled tick starts a flush exactly when the buffer is non-empty,
\* that flush takes the whole buffer, and so every buffered event is drained
\* into a batch, by a tick unless the size trigger came first
C3_TimeTrigger ==
    /\ [][(timerC = 1 /\ timerC' = 0)
            => /\ (pc' = "insert" /\ trigger' = "timer") <=> Len(queueData) > 0
               /\ Len(queueData) = 0 => pc' = "select"
               /\ queueData' = queueData]_vars
    /\ [][(pc = "insert" /\ trigger = "timer" /\ pc' # pc)
            => /\ batches' = Append(batches, [ids |-> Ids(queueData),
                                              by |-> "timer", result |-> "open"])
               /\ queueData' = <<>>]_vars
    /\ \A n \in 1..MaxReq :
           (n \in Range(Ids(queueData)))
             ~> (\E i \in 1..Len(batches) :
                    /\ n \in Range(batches[i].ids)
                    /\ \/ batches[i].by = "timer"
                       \/ Len(batches[i].ids) >= FlushSize)

C3_Witness ==
    /\ Len(batches) >= 2
    /\ batches[1].by = "timer" /\ Len(batches[1].ids) = 1
    /\ batches[2].by = "timer"
    /\ queueData = <<>>

S4AllDrained == Len(BatchIds) = S4First + 1

\* C5 as claimed: whatever the phase of the timer, nothing is flushed while
\* the 15th event of S4 is awaited, and once the 15 events are with the writer
\* they are one batch of 15
C5_AlwaysOneBatch ==
    /\ (nextId = S4First /\ elapsed <= S4Gap) => batches = <<>>
    /\ S4AllDrained => (Len(batches) = 1 /\ Len(batches[1].ids) = S4First + 1)

\* C5 as the code has it: the 15 events are one size-triggered batch of 15
\* when no tick is handled while some of them are buffered; a tick handled in
\* between flushes what is buffered, and then they are two or more
\* timer-triggered batches, each event still in exactly one of them
C5_OneBatchUnlessTickBetween ==
    S4AllDrained =>
        /\ NoDuplicates(BatchIds)
        /\ \/ /\ TimerFlushes = 0
              /\ Len(batches) = 1
              /\ batches[1].by = "size"
              /\ Len(batches[1].ids) = S4First + 1
           \/ /\ Len(batches) >= 2
              /\ \A i \in 1..Len(batches) :
                     batches[i].by = "timer" /\ Len(batches[i].ids) <= S4First

C5_Witness ==
    /\ S4AllDrained
    /\ Len(batches) = 1
    /\ batches[1].by = "size"
    /\ batches[1].result = "ok"
    /\ Len(rows) = S4First + 1
    /\ elapsed = S4Gap

----------------------------------------------------------------------------
(* The observed request: what it carried and what became of it             *)

Served == resp.id > 0

\* the handler went past decodeData
PastDecode == Served /\ resp.path \notin {"no_data", "decode_error"}

\* the pipeline holds nothing and the table is empty
Untouched ==
    /\ chanSenders = {}
    /\ queueData = <<>>
    /\ tmp = <<>>
    /\ batches = <<>>
    /\ rows = <<>>

\* `data` is absent or empty, is not base64, or is no JSON text for a struct
Undecodable(raw) ==
    \/ raw.text \in {"empty", "garbage"}
    \/ raw.json.kind \in {"invalid", "array", "string", "number"}

HeaderOf(k) == IF k \in DOMAIN args.hdr THEN args.hdr[k] ELSE <<>>

IsAddress(v) == Len(v) = 1 /\ v[1] \in ValidIPs

\* C11: a request without data or with an undecodable payload is answered
\* without a geolocation request and without a send on the intake channel,
\* and no row results from it
C11_NoSideEffects ==
    (Served /\ Undecodable(args.rawData))
        => /\ resp.path \in {"no_data", "decode_error"}
           /\ resp.geoIP = <<>>
           /\ Untouched

C11_Witness ==
    /\ Served
    /\ resp.path = "decode_error"
    /\ args.rawData = RawNotBase64
    /\ args.hdr = GoodHeaders
    /\ args.remoteAddr = GoodAddr
    /\ args.reply = GoodReply
    /\ timer.armed /\ timer.remaining = TimerSeconds /\ timerC = 0

\* the oracle is unreachable, answers outside 2xx, or its body does not decode
GeoFails(reply) ==
    \/ reply.net = "error"
    \/ reply.status \notin 200..299
    \/ reply.json # "object"

\* C12: when the geolocation call fails the event is enqueued all the same,
\* and is stored with an empty country and region
C12_GeoFailureStillEnqueued ==
    (Served /\ resp.geoIP # <<>> /\ GeoFails(args.reply))
        => /\ resp.path = "enqueued"
           /\ \A i \in 1..Len(rows) : rows[i].country = "" /\ rows[i].region = ""

\* the value track's resolver ends up with: the override, else the first of
\* the headers track names, else the peer's host
TrackChoice ==
    IF ip # <<>> THEN ip
    ELSE IF HeaderOf("X-Forward-For") # <<>> THEN HeaderOf("X-Forward-For")
    ELSE IF HeaderOf("X-Real-Ip") # <<>> THEN HeaderOf("X-Real-Ip")
    ELSE SplitHostPort(args.remoteAddr).host

\* C13: the address the handler goes on with is an address literal; when the
\* value the resolver ends up with is none, the resolver fails, and then the
\* handler makes no geolocation call and enqueues nothing
C13_OnlyParsedAddresses ==
    /\ (Served /\ resp.geoIP # <<>>) => IsAddress(resp.geoIP)
    /\ (PastDecode /\ ~IsAddress(TrackChoice)) => resp.path = "ip_error"
    /\ resp.path = "ip_error" => (resp.geoIP = <<>> /\ Untouched)

C13_Witness ==
    /\ resp.path = "ip_error"
    /\ ip = <<>>
    /\ args.rawData = RawBase64(JsonObject(BeaconPage))
    /\ args.hdr = [h \in {"X-Real-Ip"} |-> <<"unknown">>]
    /\ args.remoteAddr = GoodAddr
    /\ args.reply = GoodReply

\* C14: with a chain in X-Forwarded-For the handler asks the oracle about the
\* text left of the first comma
C14_ForwardedForFirstHop ==
    (PastDecode /\ ip = <<>> /\ Index(HeaderOf("X-Forwarded-For"), ",") > 0)
        => resp.geoIP = ipFromForwardedForHeader(HeaderOf("X-Forwarded-For"))

\* what C15 expects of a request without X-Forwarded-For and without override
RealIPOrPeer ==
    LET xri == HeaderOf("X-Real-Ip")
        split == SplitHostPort(args.remoteAddr)
        value == IF xri # <<>> THEN xri ELSE split.host
    IN  [err |-> (xri = <<>> /\ split.err) \/ ~IsAddress(value), ip |-> value]

\* C15: without an X-Forwarded-For value and without override the resolver
\* yields X-Real-IP when it is non-empty and the peer's host otherwise (and
\* fails when that value is no address): for the header sequence
\* X-Forwarded-For, X-Real-IP, and for the request track has resolved
C15_RealIPThenPeer ==
    (ip = <<>> /\ HeaderOf("X-Forwarded-For") = <<>>)
        => LET std == ipFromRequest(<<"X-Forwarded-For", "X-Real-IP">>,
                                    args.hdr, args.remoteAddr, ip)
           IN  /\ std.err = RealIPOrPeer.err
               /\ ~std.err => std.ip = RealIPOrPeer.ip
               /\ (PastDecode /\ HeaderOf("X-Forward-For") = <<>>)
                     => /\ (resp.path = "ip_error") = RealIPOrPeer.err
                        /\ ~RealIPOrPeer.err => resp.geoIP = RealIPOrPeer.ip

C15_Witness ==
    /\ resp.path = "enqueued"
    /\ ip = <<>>
    /\ args.hdr = [h \in {"X-Real-Ip"} |-> <<"9.9.9.9">>]
    /\ args.remoteAddr = GoodAddr
    /\ resp.geoIP = <<"9.9.9.9">>
    /\ Len(rows) = 1

\* C16: with the override set to an address, the handler goes on with the
\* override whatever the headers and the peer address are
C16_OverrideVerbatim ==
    (PastDecode /\ IsAddress(ip)) => resp.geoIP = ip

\* inputs the decoder is to reject
MustReject(raw) ==
    \/ raw.text \in {"empty", "garbage"}
    \/ raw.json.kind # "object"
    \/ "site_id" \notin DOMAIN raw.json.fields
    \/ "tracking" \notin DOMAIN raw.json.fields

\* C17: the decoder fails on empty input, on input that is not base64, on a
\* top level that is no object, and on an object without site_id or without
\* tracking
C17_DecoderRejects ==
    (Served /\ MustReject(args.rawData))
        => /\ decodeData(args.rawData).err
           /\ resp.path \in {"no_data", "decode_error"}

----------------------------------------------------------------------------
(* The /stats request under observation                                    *)

StatsServed == statsResp.status # 0

\* the `what` member of the request body, "" when it is left out
WhatOf(body) == IF "what" \in DOMAIN body.fields THEN body.fields.what ELSE ""

\* C18: "uv" runs the unique-visitor query; "pv", an empty, an absent and any
\* other `what` run the page-view query
C18_UnknownRunsPageViews ==
    (StatsServed /\ args.body.kind = "object")
        => statsResp.query = (IF WhatOf(args.body) = "uv" THEN "uv" ELSE "pv")

\* C19: 400 and no query when the body does not decode, 500 with the error's
\* text when the query fails, 200 with the JSON of the rows otherwise, and
\* never two of them
C19_OneOfThreeOutcomes ==
    StatsServed =>
        LET bad == args.body.kind # "object"
            failed == /\ ~bad
                      /\ WhatOf(args.body) \in {"", "pv", "uv"}
                      /\ args.storage = "error"
        IN  /\ statsResp.status
                  \in {StatusBadRequest, StatusInternalServerError, StatusOK}
            /\ (statsResp.status = StatusBadRequest) = bad
            /\ bad => (statsResp.query = "none" /\ statsResp.kind = "text")
            /\ (statsResp.status = StatusInternalServerError) = failed
            /\ failed => (statsResp.kind = "text"
                             /\ statsResp.text = "storage error")
            /\ (statsResp.status = StatusOK) = (~bad /\ ~failed)
            /\ statsResp.status = StatusOK
                  => /\ statsResp.contentType = "application/json"
                     /\ statsResp.kind \in {"null", "array"}
                     /\ (statsResp.kind = "null") = (statsResp.items = <<>>)

C19_Witness ==
    /\ statsResp.status = StatusInternalServerError
    /\ statsResp.query = "uv"
    /\ Len(rows) = MaxRows

\* C20: the page-view query yields one row for each (occured_at, event) that
\* some row of the site within the inclusive day range has, counting those
\* rows, and nothing for the rows of other sites or of days outside the range
C20_PageViewAggregation ==
    (statsResp.status = StatusOK /\ statsResp.query = "pv")
        => LET f == args.body.fields
               items == statsResp.items
               matching(d, e) ==
                   {i \in 1..Len(rows) :
                      /\ rows[i].site_id = f.site_id
                      /\ rows[i].occured_at = d
                      /\ rows[i].event = e
                      /\ f.start <= d /\ d <= f.end}
               hits(d, e) ==
                   {k \in 1..Len(items) :
                      items[k].OccuredAt = d /\ items[k].Value = e}
           IN  /\ \A d \in StatDays, e \in StatEvents :
                      IF matching(d, e) = {} THEN hits(d, e) = {}
                      ELSE /\ Cardinality(hits(d, e)) = 1
                           /\ \A k \in hits(d, e) :
                                  items[k].Count = Cardinality(matching(d, e))
               /\ \A k \in 1..Len(items) :
                      items[k].OccuredAt \in StatDays /\ items[k].Value \in StatEvents

C20_Witness ==
    /\ statsResp.status = StatusOK
    /\ statsResp.query = "pv"
    /\ args.body.fields.start = args.body.fields.end
    /\ Len(rows) = 2
    /\ rows[1].user_id # rows[2].user_id
    /\ Len(statsResp.items) = 1
    /\ statsResp.items[1].Count = 2

\* the (day, visitor, page, count) rows C21 expects of the unique-visitor
\* query: one for each triple that a row of the site within the range has
ExpectedUnique ==
    LET f == args.body.fields
        matching(d, u, e) ==
            {i \in 1..Len(rows) :
               /\ rows[i].site_id = f.site_id
               /\ rows[i].occured_at = d
               /\ rows[i].user_id = u
               /\ rows[i].event = e
               /\ f.start <= d /\ d <= f.end}
    IN  {<<d, u, e, Cardinality(matching(d, u, e))>> :
           <<d, u, e>> \in {t \in StatDays \X StatUsers \X StatEvents :
                               matching(t[1], t[2], t[3]) # {}}}

\* C21: the unique-visitor query yields one row per (day, visitor, page) of
\* the site within the range, and each row tells its day, its visitor, its
\* page and the count: the page can be read off the row
C21_UniqueRowsIdentifyTriple ==
    (statsResp.status = StatusOK /\ statsResp.query = "uv")
        => /\ Len(statsResp.items) = Cardinality(ExpectedUnique)
           /\ \E pageOf \in [Range(statsResp.items) -> StatEvents] :
                  {<<it.OccuredAt, it.Value, pageOf[it], it.Count>> :
                     it \in Range(statsResp.items)} = ExpectedUnique

\* the process was serving when the signal came
GracefulCase == proc.bound /\ proc.signalled

\* C22: when the process that was serving is told to stop, it never
\* terminates before the columnar handle and the metadata handle are both
\* closed, whatever the goroutine of ListenAndServe does meanwhile
C22_HandlesClosedBeforeExit ==
    (GracefulCase /\ proc.exited)
        => (proc.columnDB = "closed" /\ proc.mainDB = "closed")

\* C23: a process that was serving when the signal came exits with status 0;
\* a non-zero status is only that of a failed start
C23_GracefulExitZero ==
    (GracefulCase /\ proc.exited) => proc.code = 0

\* C24: when the columnar handle is closed every event the handlers handed
\* over has been submitted to the writer: none waits in a sender, in the
\* buffer or in a batch yet to be written, so no batch meets a closed handle
C24_DrainedBeforeClose ==
    proc.columnDB = "closed"
        => /\ chanSenders = {}
           /\ queueData = <<>>
           /\ tmp = <<>>
           /\ pc = "select"

\* C25: every row the writer stores carries the UTC day of the moment it is
\* bound into the batch
C25_OccuredAtIsUTCDay ==
    [][\A i \in (Len(rows) + 1)..Len(rows') : rows'[i].occured_at = today.utc]_vars

\* the referrer member of the beacon the observed request carried
WireReferrer ==
    Field(Field(args.rawData.json.fields, "tracking", <<>>), "referrer", "")

\* C26: a stored row has the referrer of its beacon as it came, and as
\* referrer_domain the host of that referrer when it is non-empty and parses,
\* the empty string otherwise, whatever else the beacon holds
C26_ReferrerDomainFromReferrer ==
    \A i \in 1..Len(rows) :
        /\ rows[i].referrer = WireReferrer
        /\ rows[i].referrer_domain =
              (IF WireReferrer # "" /\ ~UrlParse(WireReferrer).err
               THEN UrlParse(WireReferrer).Host
               ELSE "")

\* the request the client made last
LastRequest(c) == c.requests[Len(c.requests)]

\* C27: when a request of the browser client fails, by a network error or by
\* a response that is not ok, its events are back in the queue once each,
\* ahead of what has been queued since the flush began
C27_FailedBatchRequeuedOnce ==
    [][\A i \in 1..Len(client.requests) :
          (/\ Len(client'.requests) = Len(client.requests)
           /\ client.requests[i].outcome = "pending"
           /\ client'.requests[i].outcome \in {"http_error", "network_error"})
              => client'.queue = client.requests[i].events \o client.queue]_vars

\* C28: a call of track that leaves fewer than batchSize events queued sends
\* nothing; one that brings the queue to batchSize sends one request with
\* all queued events in queue order and empties the queue; a manual flush
\* sends all queued events in one request
C28_BatchBySizeOrManual ==
    [][/\ (client'.next = client.next + 1 /\ ~client.optedOut)
          => IF Len(client.queue) + 1 < client.batchSize
             THEN /\ client'.requests = client.requests
                  /\ client'.queue = Append(client.queue, client.next)
             ELSE /\ Len(client'.requests) = Len(client.requests) + 1
                  /\ LastRequest(client').events = Append(client.queue, client.next)
                  /\ LastRequest(client').by = "size"
                  /\ client'.queue = <<>>
       /\ (/\ Len(client'.requests) = Len(client.requests) + 1
           /\ LastRequest(client').by = "manual")
          => /\ LastRequest(client').events = client.queue
             /\ client'.queue = <<>>]_vars

\* a batch of more than one event went out when the queue reached batchSize,
\* and another by a manual flush below batchSize
C28_Witness ==
    /\ client.batchSize > 1
    /\ \E i, j \in 1..Len(client.requests) :
          /\ client.requests[i].by = "size"
          /\ Len(client.requests[i].events) = client.batchSize
          /\ client.requests[j].by = "manual"
          /\ Len(client.requests[j].events) < client.batchSize

\* C29: no request is made, by fetch or by sendBeacon, while the user has
\* opted out
C29_NothingSentWhileOptedOut ==
    \A i \in 1..Len(client.requests) : ~client.requests[i].optedOut

\* the last n elements of a
Latest(a, n) == SubSeq(a, Len(a) - n + 1, Len(a))

\* C30: a MemoryStorage made with maxEvents = N holds at most N events, and
\* they are the N stored last (all of them while fewer than N were stored),
\* oldest first
C30_KeepsMostRecent ==
    /\ Len(store.events) <= store.maxEvents
    /\ store.events =
         Latest(store.all, IF Len(store.all) < store.maxEvents
                           THEN Len(store.all) ELSE store.maxEvents)

\* a batch larger than the limit was stored on top of earlier events
C30_Witness ==
    /\ store.maxEvents > 0
    /\ store.last > store.maxEvents
    /\ Len(store.all) > store.last
    /\ Len(store.events) = store.maxEvents

\* C34: the staging buffer never holds more than 15 events, and no more than
\* 14 while the consumer waits in its select
C34_BufferBounded ==
    /\ Len(queueData) <= FlushSize
    /\ pc = "select" => Len(queueData) <= FlushSize - 1

\* the buffer is full and the consumer is on its way to drain it
C34_Witness ==
    /\ Len(queueData) = FlushSize
    /\ pc = "insert"
    /\ trigger = "size"

\* C35: only the handling of a tick arms the timer, and it arms it for 10
\* seconds; a receive, with or without a flush by size, a drain and the
\* writer calls leave the timer as it is, so that it runs on towards its
\* deadline
C35_OnlyTickRearms ==
    [][/\ (timerC = 1 /\ timerC' = 0)
          => timer' = [armed |-> TRUE, remaining |-> TimerSeconds]
       /\ ~(timerC = 1 /\ timerC' = 0)
          => \/ timer' = timer
             \/ /\ timer.armed
                /\ timer'.remaining < timer.remaining]_vars

\* a batch left by size and the timer is part way through its interval
C35_Witness ==
    /\ \E i \in 1..Len(batches) : batches[i].by = "size"
    /\ timer.armed
    /\ timer.remaining < TimerSeconds
    /\ timer.remaining > 0

\* C38: a batch handed to the writer by the size trigger has exactly 15
\* events, one handed over by a tick has 1 to 14, and the buffer does not
\* change between the length check and the drain
C38_BatchSizes ==
    /\ [](\A i \in 1..Len(batches) :
            /\ batches[i].by = "size" => Len(batches[i].ids) = FlushSize
            /\ batches[i].by = "timer"
                 => (Len(batches[i].ids) >= 1 /\ Len(batches[i].ids) <= FlushSize - 1)
            /\ batches[i].by \in {"size", "timer"})
    /\ [][pc = "insert" => \/ (pc' = "insert" /\ queueData' = queueData)
                           \/ (pc' = "writer" /\ tmp' = queueData)]_vars

\* both kinds of batch went to the writer
C38_Witness ==
    \E i, j \in 1..Len(batches) :
        /\ batches[i].by = "size"
        /\ batches[j].by = "timer"

\* C36: a request that has passed geolocation is answered whatever the
\* consumer is doing, in particular while it is on its way through
\* InsertEvents; answering it changes nothing of the consumer's, the event
\* waiting in its sender goroutine
C36_ResponseDoesNotWait ==
    /\ []((pc # "select" /\ nextId < MaxBurst /\ chanSenders = {})
            => ENABLED TrackBurst)
    /\ [][(nextId' = nextId + 1 /\ resp'.path = "enqueued")
            => /\ resp'.status = StatusOK
               /\ Cardinality(chanSenders') = Cardinality(chanSenders) + 1
               /\ queueData' = queueData
               /\ pc' = pc]_vars

\* the 16th request was answered after the 15th event had sent the consumer
\* into InsertEvents, where it still is; its event waits in its sender
C36_Witness ==
    /\ pc = "writer"
    /\ Len(tmp) = FlushSize
    /\ resp.id = FlushSize + 1
    /\ resp.path = "enqueued"
    /\ \E d \in chanSenders : d.id = resp.id

\* C37: whenever the consumer is suspended, in its select or inside the
\* writer calls, the lock of the buffer is free; it is held only from the
\* append to the count, for the length read, and for the move out of the
\* buffer
C37_NoLockAcrossSuspension ==
    /\ pc \in {"select", "writer", "append"} => lock = "free"
    /\ lock = "write" => pc \in {"appended", "moved"}
    /\ lock = "read" => pc = "counted"

\* the consumer is inside the writer calls with a batch it moved out under
\* the lock, which it has given back
C37_Witness ==
    /\ pc = "writer"
    /\ tmp # <<>>
    /\ lock = "free"
    /\ \E d \in chanSenders : TRUE

\* the header is not sent, or it is "Bearer " and a token that is no key
Unauthorized(authHeader, writeKeys) ==
    \/ authHeader = <<>>
    \/ /\ Len(authHeader) > 1
       /\ authHeader[1] = "Bearer "
       /\ Tail(authHeader) \notin writeKeys

\* C31: with write keys configured, a request without Authorization header
\* or with a bearer token that is none of the keys is answered 401 and does
\* not reach storage.storeEvents, whatever its body and its other headers
C31_UnauthorizedRejected ==
    \A i \in 1..Len(collector.log) :
        (collector.writeKeys # {} /\ Unauthorized(collector.log[i].auth, collector.writeKeys))
            => /\ collector.log[i].status = 401
               /\ ~collector.log[i].stored
               /\ \A j \in 1..Len(collector.stored) : collector.stored[j] # i

\* a request with a key was stored, one without header and one with a wrong
\* token were refused
C31_Witness ==
    /\ collector.writeKeys # {}
    /\ \E i, j, k \in 1..Len(collector.log) :
          /\ collector.log[i].auth = <<>>
          /\ collector.log[j].auth = <<"Bearer ", "bad">>
          /\ collector.log[j].status = 401
          /\ collector.log[k].stored

\* the counted request of the same client before request i, 0 if none
PrevCounted(i) ==
    LET before == {j \in 1..(i - 1) :
                     /\ collector.log[j].counted
                     /\ collector.log[j].key = collector.log[i].key}
    IN  IF before = {} THEN 0 ELSE CHOOSE j \in before : \A k \in before : k <= j

\* the request that began the window request i falls into
RECURSIVE WindowStarter(_)
WindowStarter(i) ==
    IF PrevCounted(i) = 0 THEN i
    ELSE IF collector.log[i].time > collector.log[WindowStarter(PrevCounted(i))].time + WindowMs
         THEN i
         ELSE WindowStarter(PrevCounted(i))

\* the place of request i among the counted requests of its window
PlaceInWindow(i) ==
    Cardinality({j \in 1..i : /\ collector.log[j].counted
                              /\ collector.log[j].key = collector.log[i].key
                              /\ WindowStarter(j) = WindowStarter(i)})

\* the limit as the options give it, 1000 when they give none
ConfiguredLimit ==
    IF collector.eventsPerMinute = <<>> THEN DefaultEventsPerMinute
    ELSE collector.eventsPerMinute[1]

\* C39: of the requests of one client address in one window of 60 seconds,
\* which begins with the first of them and ends at its reset time, the first
\* eventsPerMinute reach the handler and every further one is answered 429
\* and stores nothing; the first request after the reset time begins a new
\* window
C39_RateLimitPerWindow ==
    \A i \in 1..Len(collector.log) :
        collector.log[i].counted
            => IF PlaceInWindow(i) > ConfiguredLimit
               THEN collector.log[i].status = 429 /\ ~collector.log[i].stored
               ELSE collector.log[i].status # 429

\* every event the namespace holds
KvStored == UNION {Range(kv.data[d]) : d \in DOMAIN kv.data}

\* C32: a query over [start, end] that has returned has read the key of
\* every day from the day of start to the day of end, and has returned every
\* event with a timestamp in the range that was stored when it was called
C32_QueryReadsEveryDay ==
    (kv.query # <<>> /\ QueryDone)
        => LET q == kv.query[1]
           IN  /\ \A d \in DayOf(q.start)..DayOf(q.end) : d \in Range(q.days)
               /\ \A e \in q.before :
                     (e.timestamp >= q.start /\ e.timestamp <= q.end)
                         => e \in q.events

\* the calls of storeEvents that have completed
KvCompleted ==
    {c \in 1..kv.calls : \A i \in 1..Len(kv.tasks) :
                            kv.tasks[i].call = c => kv.tasks[i].at = "done"}

\* C33: the key of a day holds the events of every storeEvents call that has
\* completed, also when calls for the same day overlap
C33_NoStoredEventDropped ==
    \A i \in 1..Len(kv.tasks) :
        kv.tasks[i].call \in KvCompleted
            => \A e \in Range(kv.tasks[i].events) :
                   e \in Range(KvGet(kv.data, kv.tasks[i].day))

\* the event was in a request the endpoint accepted
Transmitted(e) ==
    \E i \in 1..Len(client.requests) :
        /\ client.requests[i].outcome = "ok"
        /\ e \in Range(client.requests[i].events)

\* the requests that have failed so far
FailedRequests ==
    Cardinality({i \in 1..Len(client.requests) :
                    client.requests[i].outcome \in {"http_error", "network_error"}})

\* C40: an event in the queue is eventually in a request the endpoint
\* accepts, with no further call of the page, unless one more request fails
\* first (the endpoint does not accept yet)
C40_QueuedEventuallyTransmitted ==
    \A e \in 1..MaxEvents : \A k \in 0..MaxFetches :
        [](( /\ e \in Range(client.queue)
             /\ FailedRequests = k
             /\ Len(client.requests) < MaxFetches )
              => <>(Transmitted(e) \/ FailedRequests > k))


====
